---- MODULE Spec2Model ----
(***************************************************************************)
(* A model of geomesh: the Japanese regional mesh encoder (MeshCodeJP),    *)
(* the decoder (MeshCodeTo.to_bounds) and the range enumerator             *)
(* (generate_jpmesh) of src/geomesh/jpmesh.py.                             *)
(*                                                                         *)
(* The program computes with three kinds of numbers, and the model keeps   *)
(* each of them as the program has it:                                     *)
(*   - Python ints (unbounded): the SCALE = 10^10 fixed-point values.      *)
(*     They are naturals written in base 2^15 (a sequence of limbs, least  *)
(*     significant first), because TLC's integers are 32 bits wide and     *)
(*     10^10 does not fit.                                                 *)
(*   - Python floats (IEEE-754 binary64): records [s, m, e] standing for   *)
(*     s * m * 2^e with m < 2^53 odd (or zero); every operation rounds to  *)
(*     nearest, ties to even, as the hardware does.                        *)
(*   - decimal.Decimal with prec = 13 and ROUND_DOWN (jpmesh.py:18-19):    *)
(*     records [c, x] standing for c * 10^x, cut to 13 digits.             *)
(*                                                                         *)
(* A function of the program is an operator of the same name. One function *)
(* calls another by name, Call("name", <<arguments>>), as Python does: the *)
(* arguments are computed first, then the body.                            *)
(***************************************************************************)
EXTENDS Integers, Sequences, FiniteSets, Bags, TLC

(***************************************************************************)
(* Python int: naturals of any size                                        *)
(***************************************************************************)
\* The larger operations are called by name: Call("op", <<a1, ..., an>>) is
\* op(a1, ..., an) on the values of the arguments, which Python computes
\* before the call
RECURSIVE Call(_, _)

Base == 2^15

\* a value, once computed: TRUE
Evaluated(v) == v = v

\* Python runs the statements of a function in the order written, each to its
\* value, and then builds the result
Do(statements, result) == CASE Evaluated(statements) -> result

Min2(a, b) == IF a <= b THEN a ELSE b
Max2(a, b) == IF a >= b THEN a ELSE b

\* the greatest and the least element of a non-empty set of integers
SetMax(S) == CHOOSE i \in S : \A j \in S : j <= i
SetMin(S) == CHOOSE i \in S : \A j \in S : i <= j

\* the sum of a function to the naturals with a finite domain
Sum(f) == BagCardinality([i \in DOMAIN f |-> f[i] + 1]) - Cardinality(DOMAIN f)

Limb(a, i) == IF i >= 1 /\ i <= Len(a) THEN a[i] ELSE 0

\* a without its leading zero limbs
BNorm(a) ==
    LET nz == {i \in 1..Len(a) : a[i] # 0}
    IN  IF nz = {} THEN <<>> ELSE SubSeq(a, 1, SetMax(nz))

\* a natural below 2^31
BFromNat(n) == BNorm(<<n % Base, (n \div Base) % Base, n \div (Base * Base)>>)

\* one round of carries over digits below Base^2: what is left is below 2 * Base - 1
Carry(d) ==
    [k \in 1..(Len(d) + 1) |-> (Limb(d, k) % Base) + (Limb(d, k - 1) \div Base)]

\* the number whose digits d are below 2 * Base - 1: a carry of one enters
\* limb k when a limb below it overflows and every limb between is Base - 1
Ripple(d) ==
    LET c(k) == \E j \in 1..(k - 1) :
                    d[j] >= Base /\ \A m \in (j + 1)..(k - 1) : d[m] = Base - 1
    IN  BNorm([k \in 1..(Len(d) + 1) |->
                  (Limb(d, k) + (IF c(k) THEN 1 ELSE 0)) % Base])

BAdd(a, b) == Ripple([k \in 1..Max2(Len(a), Len(b)) |-> Limb(a, k) + Limb(b, k)])

\* a - b for a >= b: a borrow of one enters limb k when a limb below it is
\* short and every limb between is zero
BSub(a, b) ==
    LET d == [k \in 1..Len(a) |-> a[k] - Limb(b, k)]
        c(k) == \E j \in 1..(k - 1) :
                    d[j] < 0 /\ \A m \in (j + 1)..(k - 1) : d[m] = 0
    IN  BNorm([k \in 1..Len(a) |-> (d[k] - (IF c(k) THEN 1 ELSE 0) + Base) % Base])

\* -1, 0, 1 as a < b, a = b, a > b
BCmp(a, b) ==
    LET diff == {k \in 1..Max2(Len(a), Len(b)) : Limb(a, k) # Limb(b, k)}
    IN  IF diff = {} THEN 0
        ELSE IF Limb(a, SetMax(diff)) < Limb(b, SetMax(diff)) THEN -1 ELSE 1

BLt(a, b) == BCmp(a, b) < 0
BLe(a, b) == BCmp(a, b) <= 0

\* a * k for 0 <= k < Base
BMulSmall(a, k) == Ripple(Carry([i \in 1..Len(a) |-> a[i] * k]))

\* limb k of the product sums a[i] * b[k + 1 - i], the low halves of the
\* products here and their high halves one limb up
BMul(a, b) ==
    LET P(k) == {i \in 1..Len(a) : k + 1 - i >= 1 /\ k + 1 - i <= Len(b)}
        lo(k) == Sum([i \in P(k) |-> (a[i] * b[k + 1 - i]) % Base])
        hi(k) == Sum([i \in P(k) |-> (a[i] * b[k + 1 - i]) \div Base])
    IN  Ripple(Carry([k \in 1..(Len(a) + Len(b)) |-> lo(k) + hi(k - 1)]))

\* a * 2^n
BShl(a, n) ==
    LET q == n \div 15
        p == 2^(n % 15)
    IN  BNorm([k \in 1..(Len(a) + q + 1) |->
                  ((Limb(a, k - q) * p) % Base) + ((Limb(a, k - q - 1) * p) \div Base)])

\* a \div 2^n
BShr(a, n) ==
    LET q == n \div 15
        p == 2^(n % 15)
    IN  BNorm([k \in 1..Max2(0, Len(a) - q) |->
                  (Limb(a, k + q) \div p) + (Limb(a, k + q + 1) % p) * (Base \div p)])

\* the number of bits of a limb
NatBits(n) == CHOOSE k \in 0..15 : n < 2^k /\ (k = 0 \/ 2^(k - 1) <= n)

BBitLen(a) == IF a = <<>> THEN 0 ELSE 15 * (Len(a) - 1) + NatBits(a[Len(a)])

\* the largest k with d * k <= cur, for cur < d * Base and d with a top limb of
\* 2^14 or more: the two leading limbs of cur over the top limb of d give it
\* to within two units, from above
QuotDigit(cur, d) ==
    LET n == Len(d)
        hi == Min2(Base - 1, (Limb(cur, n + 1) * Base + Limb(cur, n)) \div d[n])
    IN  SetMax({k \in Max2(0, hi - 2)..hi : BLe(BMulSmall(d, k), cur)})

\* one step of the long division: a limb joins the remainder so far from below
DivStep(up, limb, d) ==
    LET cur == BNorm(<<limb>> \o up.r)
        k == QuotDigit(cur, d)
    IN  CASE Evaluated(up) -> [q |-> <<k>> \o up.q, r |-> BSub(cur, BMulSmall(d, k))]

\* long division of limbs i.. of a by d, one limb of a at a time from the top
RECURSIVE BDivModI(_, _, _)
BDivModI(a, d, i) ==
    IF i > Len(a) - Len(d) + 1
    THEN [q |-> <<>>, r |-> BNorm(SubSeq(a, i, Len(a)))]
    ELSE DivStep(BDivModI(a, d, i + 1), a[i], d)

\* quotient and remainder of a by d # 0, both naturals
BDivMod(a, d) ==
    LET sh == 15 - NatBits(d[Len(d)])
        x == BDivModI(BShl(a, sh), BShl(d, sh), 1)
    IN  [q |-> BNorm(x.q), r |-> BShr(x.r, sh)]

\* a natural below 2^31
BToNat(a) == Limb(a, 1) + Base * Limb(a, 2) + Base * Base * Limb(a, 3)

\* quotient (a natural) and remainder (a small number) of a by 0 < d < Base
BDivSmall(a, d) ==
    LET x == Call("BDivMod", <<a, <<d>> >>) IN [q |-> x.q, r |-> BToNat(x.r)]

BIsOdd(a) == a # <<>> /\ a[1] % 2 = 1

\* the number of trailing zero bits of a # 0
BTrailingZeros(a) ==
    LET i == SetMin({k \in 1..Len(a) : a[k] # 0})
    IN  15 * (i - 1) + SetMax({k \in 0..14 : a[i] % 2^k = 0})

(***************************************************************************)
(* Python float: IEEE-754 binary64, round to nearest, ties to even         *)
(***************************************************************************)
MantBits == 53

FZero == [s |-> 1, m |-> <<>>, e |-> 0]

\* s * M * 2^E, exactly, for a value that needs no rounding
FCanon(s, M, E) ==
    IF M = <<>> THEN FZero
    ELSE LET tz == BTrailingZeros(M)
         IN  [s |-> s, m |-> BShr(M, tz), e |-> E + tz]

\* the double nearest to s * M * 2^E
FRound(s, M, E) ==
    LET L == BBitLen(M)
    IN  IF L <= MantBits THEN FCanon(s, M, E)
        ELSE LET sh == L - MantBits
                 q == BShr(M, sh)
                 rem == BSub(M, BShl(q, sh))
                 c == BCmp(rem, BShl(<<1>>, sh - 1))
                 up == c > 0 \/ (c = 0 /\ BIsOdd(q))
             IN  Do(<<q, rem, c>>, FCanon(s, IF up THEN BAdd(q, <<1>>) ELSE q, E + sh))

FFromNat(n) == FCanon(1, BFromNat(n), 0)
FFromBig(a) == Call("FRound", <<1, a, 0>>)
FIsZero(x) == x.m = <<>>
FNeg(x) == IF FIsZero(x) THEN x ELSE [x EXCEPT !.s = -x.s]
FSign(x) == IF FIsZero(x) THEN 0 ELSE x.s

\* the mantissa of x at exponent E <= x.e
FAt(x, E) == BShl(x.m, x.e - E)

FMagCmp(x, y) ==
    LET tx == BBitLen(x.m) + x.e
        ty == BBitLen(y.m) + y.e
        E == Min2(x.e, y.e)
    IN  IF tx < ty THEN -1 ELSE IF tx > ty THEN 1 ELSE BCmp(Call("FAt", <<x, E>>), Call("FAt", <<y, E>>))

FCmp(x, y) ==
    IF FSign(x) # FSign(y) THEN (IF FSign(x) < FSign(y) THEN -1 ELSE 1)
    ELSE IF FIsZero(x) THEN 0
    ELSE x.s * Call("FMagCmp", <<x, y>>)

FLt(x, y) == Call("FCmp", <<x, y>>) < 0
FLe(x, y) == Call("FCmp", <<x, y>>) <= 0

FAdd(x, y) ==
    IF FIsZero(x) THEN y
    ELSE IF FIsZero(y) THEN x
    ELSE LET E == Min2(x.e, y.e)
             X == Call("FAt", <<x, E>>)
             Y == Call("FAt", <<y, E>>)
         IN  Do(<<X, Y>>,
                IF x.s = y.s THEN Call("FRound", <<x.s, BAdd(X, Y), E>>)
                ELSE IF BLe(Y, X) THEN Call("FRound", <<x.s, BSub(X, Y), E>>)
                ELSE Call("FRound", <<y.s, BSub(Y, X), E>>))

FSub(x, y) == Call("FAdd", <<x, FNeg(y)>>)

FMul(x, y) == Call("FRound", <<x.s * y.s, BMul(x.m, y.m), x.e + y.e>>)

\* the float nearest to s * (N / D) * 2^E for naturals N and D # 0: the
\* quotient to 56 bits or more, and a sticky bit for what is left
FRatio(s, N, D, E) ==
    IF N = <<>> THEN FZero
    ELSE LET k == Max2(0, MantBits + 3 + BBitLen(D) - BBitLen(N))
             dm == Call("BDivMod", <<BShl(N, k), D>>)
             M == BAdd(BAdd(dm.q, dm.q), IF dm.r = <<>> THEN <<>> ELSE <<1>>)
         IN  Do(<<dm, M>>, Call("FRound", <<s, M, E - k - 1>>))

\* x / y for y # 0
FDiv(x, y) == Call("FRatio", <<x.s * y.s, x.m, y.m, x.e - y.e>>)

\* C fmod: x - n * y for the integer n = trunc(x / y); exact, with the sign of x
Fmod(x, y) ==
    LET E == Min2(x.e, y.e)
    IN  FCanon(x.s, Call("BDivMod", <<Call("FAt", <<x, E>>), Call("FAt", <<y, E>>)>>).r, E)

\* math.floor as a float
FFloor(x) ==
    IF x.e >= 0 THEN x
    ELSE LET t == BShr(x.m, -x.e)
         IN  IF x.s = 1 THEN FCanon(1, t, 0) ELSE FCanon(-1, BAdd(t, <<1>>), 0)

\* the integer part of x, toward zero, as a float
FTrunc(x) == IF x.e >= 0 THEN x ELSE FCanon(x.s, BShr(x.m, -x.e), 0)

\* int(x) for a float x >= 0: a Python int
FToBig(x) == IF x.e >= 0 THEN BShl(x.m, x.e) ELSE BShr(x.m, -x.e)

\* int(x) for a float of small magnitude
FToInt(x) == x.s * BToNat(Call("FToBig", <<x>>))

FOne == FFromNat(1)
FHalf == FCanon(1, <<1>>, -1)

\* float.__divmod__ (CPython float_divmod): <<floor quotient, remainder>>
PyDivmod(v, w) ==
    LET mod0 == Call("Fmod", <<v, w>>)
        div0 == FDiv(FSub(v, mod0), w)
        adj == ~FIsZero(mod0) /\ ((w.s < 0) # (mod0.s < 0))
        mod == IF adj THEN Call("FAdd", <<mod0, w>>) ELSE mod0
        div == IF adj THEN FSub(div0, FOne) ELSE div0
        fl == Call("FFloor", <<div>>)
        floordiv == IF FIsZero(div) THEN FZero
                    ELSE IF FLt(FHalf, FSub(div, fl)) THEN Call("FAdd", <<fl, FOne>>)
                    ELSE fl
    IN  Do(<<mod0, div0, mod, div, fl, floordiv>>, <<floordiv, mod>>)

\* float.__mod__ (CPython float_rem)
PyMod(v, w) ==
    LET mod0 == Call("Fmod", <<v, w>>)
    IN  Do(<<mod0>>,
           IF ~FIsZero(mod0) /\ ((w.s < 0) # (mod0.s < 0)) THEN Call("FAdd", <<mod0, w>>) ELSE mod0)

\* math.modf: <<fractional part, integer part>>, both with the sign of x
\* math.modf with the whole part first
PyModfWholeFirst(x) == <<Call("FTrunc", <<x>>), FSub(x, Call("FTrunc", <<x>>))>>

PyModf(x) == <<FSub(x, Call("FTrunc", <<x>>)), Call("FTrunc", <<x>>)>>

BPow10(d) ==
    IF d <= 9 THEN BFromNat(10^d) ELSE BMul(Call("BPow10", <<d - 9>>), BFromNat(10^9))

\* the float a decimal literal denotes: i.f with d digits after the point
FLit(i, f, d) ==
    Call("FRatio", <<1, BAdd(BMul(BFromNat(i), Call("BPow10", <<d>>)), BFromNat(f)), Call("BPow10", <<d>>), 0>>)

\* int / int, Python's true division: the float nearest to the quotient
PyTrueDiv(a, b) == Call("FRatio", <<1, a, b, 0>>)

(***************************************************************************)
(* decimal.Decimal under the context jpmesh.py sets: 13 digits, ROUND_DOWN *)
(***************************************************************************)
Prec == 13

\* the number of decimal digits of a: a number of L bits has one digit more
\* than (L - 1) * log10(2) rounded down, or two
BDecLen(a) ==
    IF a = <<>> THEN 0
    ELSE LET n == ((BBitLen(a) - 1) * 30103) \div 100000 + 1
         IN  IF BLt(a, Call("BPow10", <<n>>)) THEN n ELSE n + 1

\* c * 10^x cut to the context's precision
DRound(c, x) ==
    LET L == Call("BDecLen", <<c>>)
    IN  IF L <= Prec THEN [c |-> c, x |-> x]
        ELSE [c |-> Call("BDivMod", <<c, Call("BPow10", <<L - Prec>>)>>).q, x |-> x + L - Prec]

DFromInt(n) == [c |-> n, x |-> 0]
DLit(c, x) == [c |-> BFromNat(c), x |-> x]

DMul(a, b) == Call("DRound", <<BMul(a.c, b.c), a.x + b.x>>)

DAdd(a, b) ==
    LET m == Min2(a.x, b.x)
    IN  Call("DRound", <<BAdd(BMul(a.c, Call("BPow10", <<a.x - m>>)), BMul(b.c, Call("BPow10", <<b.x - m>>))), m>>)

DDiv(a, b) ==
    IF a.c = <<>> THEN [c |-> <<>>, x |-> 0]
    ELSE LET k == Max2(0, Prec + 2 + Call("BDecLen", <<b.c>>) - Call("BDecLen", <<a.c>>))
         IN  Call("DRound", <<Call("BDivMod", <<BMul(a.c, Call("BPow10", <<k>>)), b.c>>).q, a.x - b.x - k>>)

\* int(Decimal)
DToBig(a) ==
    IF a.x >= 0 THEN BMul(a.c, Call("BPow10", <<a.x>>)) ELSE Call("BDivMod", <<a.c, Call("BPow10", <<-a.x>>)>>).q

\* the float nearest to c * 10^t
FOfDec(c, t) ==
    IF t >= 0 THEN FFromBig(BMul(c, Call("BPow10", <<t>>))) ELSE Call("FRatio", <<1, c, Call("BPow10", <<-t>>), 0>>)

\* num / (2^a * den) rounded to the nearest integer, ties to even
RoundRatio(num, a, den) ==
    LET q1 == BShr(num, a)
        r1 == BSub(num, BShl(q1, a))
        dm == IF den = <<1>> THEN [q |-> q1, r |-> <<>>] ELSE Call("BDivMod", <<q1, den>>)
        \* the remainder of num by 2^a * den, and twice it against 2^a * den
        r == BAdd(BShl(dm.r, a), r1)
        c == BCmp(BAdd(r, r), BShl(den, a))
    IN  Do(<<q1, r1, dm, r, c>>,
           IF c > 0 \/ (c = 0 /\ BIsOdd(dm.q)) THEN BAdd(dm.q, <<1>>) ELSE dm.q)

\* x / 10^t rounded to the nearest integer, ties to even, for a float x > 0
DecDigits(x, t) ==
    Call("RoundRatio", <<BMul(IF x.e > 0 THEN BShl(x.m, x.e) ELSE x.m,
                    IF t < 0 THEN Call("BPow10", <<-t>>) ELSE <<1>>), IF x.e < 0 THEN -x.e ELSE 0, IF t > 0 THEN Call("BPow10", <<t>>) ELSE <<1>> >>)

MaxReprDigits == 17

\* x to d significant digits, the first of them worth 10^p10
ReprDigits(x, p10, d) ==
    [c |-> Call("DecDigits", <<x, p10 - d + 1>>), x |-> p10 - d + 1]

\* whether a decimal reads back as the float x
ReadsBack(dec, x) == Call("FOfDec", <<dec.c, dec.x>>) = x

\* Decimal(f"{x}") for a float x >= 0: repr(x) is the shortest decimal string
\* that reads back as x, and Decimal takes that string exactly
DOfFloat(x) ==
    IF FIsZero(x) THEN [c |-> <<>>, x |-> 0]
    ELSE LET n17 == Call("DecDigits", <<x, -MaxReprDigits>>)
             p10 == Call("BDecLen", <<n17>>) - MaxReprDigits - 1
         IN  ReprDigits(x, p10, SetMin({d \in 1..MaxReprDigits :
                                          ReadsBack(ReprDigits(x, p10, d), x)}))

(***************************************************************************)
(* Python str: sequences of one-character strings                          *)
(***************************************************************************)
DigitChars == <<"0", "1", "2", "3", "4", "5", "6", "7", "8", "9">>

RECURSIVE NatStr(_)
NatStr(n) ==
    IF n < 10 THEN <<DigitChars[n + 1]>>
    ELSE NatStr(n \div 10) \o <<DigitChars[(n % 10) + 1]>>

\* str(n) for an int n
Str(n) == IF n < 0 THEN <<"-">> \o NatStr(-n) ELSE NatStr(n)

\* s[a:b] for 0 <= a <= b
Slice(s, a, b) == SubSeq(s, a + 1, Min2(b, Len(s)))

IsDigits(s) == s # <<>> /\ \A i \in 1..Len(s) : \E d \in 1..10 : DigitChars[d] = s[i]

\* whether int(s) returns (otherwise it raises ValueError: invalid literal)
IntOk(s) == IsDigits(s) \/ (Len(s) >= 2 /\ s[1] = "-" /\ IsDigits(Tail(s)))

CharVal(c) == (CHOOSE d \in 1..10 : DigitChars[d] = c) - 1

RECURSIVE DigitsVal(_)
DigitsVal(s) ==
    IF s = <<>> THEN 0 ELSE 10 * DigitsVal(SubSeq(s, 1, Len(s) - 1)) + CharVal(s[Len(s)])

\* int(s) where IntOk(s)
IntOf(s) == IF s[1] = "-" THEN -DigitsVal(Tail(s)) ELSE DigitsVal(s)

StartsWith(s, t) == Len(t) <= Len(s) /\ SubSeq(s, 1, Len(t)) = t

(***************************************************************************)
(* jpmesh.py                                                               *)
(***************************************************************************)
SCALE == Call("BPow10", <<10>>)

F(n) == FFromNat(n)
F7_5 == Call("FLit", <<7, 5, 1>>)
F22_5 == Call("FLit", <<22, 5, 1>>)
F11_25 == Call("FLit", <<11, 25, 2>>)

\* MeshCodeJP._mesh_code, with half and quarter codes that are both the
\* standard code and one digit
MeshCodesOnStandard(c) ==
    LET first_mesh_code == c.first_lat_code \o c.first_lon_code
        secandary_mesh_code == first_mesh_code \o c.secandary_lat_code \o c.secandary_lon_code
        standard_mesh_code == secandary_mesh_code \o c.standard_lat_code \o c.standard_lon_code
    IN  [first_mesh_code |-> first_mesh_code,
         secandary_mesh_code |-> secandary_mesh_code,
         standard_mesh_code |-> standard_mesh_code,
         half_mesh_code |-> standard_mesh_code \o c.m,
         quarter_mesh_code |-> standard_mesh_code \o c.n]

\* MeshCodeJP._mesh_code, the five codes from the digit strings c: each code
\* is the one before it and its own digits
MeshCodes(c) ==
    LET first_mesh_code == c.first_lat_code \o c.first_lon_code
        secandary_mesh_code == first_mesh_code \o c.secandary_lat_code \o c.secandary_lon_code
        standard_mesh_code == secandary_mesh_code \o c.standard_lat_code \o c.standard_lon_code
        half_mesh_code == standard_mesh_code \o c.m
        quarter_mesh_code == half_mesh_code \o c.n
    IN  [first_mesh_code |-> first_mesh_code,
         secandary_mesh_code |-> secandary_mesh_code,
         standard_mesh_code |-> standard_mesh_code,
         half_mesh_code |-> half_mesh_code,
         quarter_mesh_code |-> quarter_mesh_code]

\* MeshCodeJP._mesh_code
_mesh_code(lon, lat) ==
    LET \* latitude
        pa == Call("PyDivmod", <<Call("FMul", <<lat, F(60)>>), F(40)>>)
        p == pa[1]
        a == pa[2]
        qb == Call("PyDivmod", <<a, F(5)>>)
        q == qb[1]
        b == qb[2]
        rc == Call("PyDivmod", <<Call("FMul", <<b, F(60)>>), F(30)>>)
        r == rc[1]
        c == rc[2]
        sd == Call("PyDivmod", <<c, F(15)>>)
        s == sd[1]
        d == sd[2]
        first_lat_code == Str(FToInt(p))
        secandary_lat_code == Str(FToInt(q))
        standard_lat_code == Str(FToInt(r))
        \* longitude
        fi == Call("PyModf", <<lon>>)
        f == fi[1]
        i == fi[2]
        u == FToInt(FSub(i, F(100)))
        vg == Call("PyDivmod", <<Call("FMul", <<f, F(60)>>), F7_5>>)
        v == vg[1]
        g == vg[2]
        wh == Call("PyDivmod", <<Call("FMul", <<g, F(60)>>), F(45)>>)
        w == wh[1]
        h == wh[2]
        xj == Call("PyDivmod", <<h, F22_5>>)
        x == xj[1]
        yj == Call("PyDivmod", <<xj[2], F11_25>>)
        y == yj[1]
        first_lon_code == Str(u)
        secandary_lon_code == Str(FToInt(v))
        standard_lon_code == Str(FToInt(w))
        m == Str(FToInt(Call("FAdd", <<Call("FMul", <<s, F(2)>>), Call("FAdd", <<x, F(1)>>)>>)))
        lat_in_half == FToInt(FDiv(d, F7_5))
        n == Str(FToInt(Call("FAdd", <<F(lat_in_half * 2), Call("FAdd", <<y, F(1)>>)>>)))
    IN  Do(<<pa, qb, rc, sd, fi, u, vg, wh, xj, yj, m, lat_in_half, n>>,
           MeshCodes([first_lat_code |-> first_lat_code,
                      first_lon_code |-> first_lon_code,
                      secandary_lat_code |-> secandary_lat_code,
                      secandary_lon_code |-> secandary_lon_code,
                      standard_lat_code |-> standard_lat_code,
                      standard_lon_code |-> standard_lon_code,
                      m |-> m, n |-> n]))

\* the six slices MeshCodeJP._coordinates hands to int()
CoordinateSlices(mesh) ==
    [lon |-> Slice(mesh.first_mesh_code, 2, 4),
     lat |-> Slice(mesh.first_mesh_code, 0, 2),
     lon_sec |-> Slice(mesh.secandary_mesh_code, 5, 6),
     lat_sec |-> Slice(mesh.secandary_mesh_code, 4, 5),
     lon_std |-> Slice(mesh.standard_mesh_code, 7, 8),
     lat_std |-> Slice(mesh.standard_mesh_code, 6, 7)]

\* MeshCodeJP._coordinates
_coordinates(mesh) ==
    LET sl == CoordinateSlices(mesh)
    IN  [lon |-> IntOf(sl.lon) + 100,
         lat |-> IntOf(sl.lat),
         lon_sec |-> IntOf(sl.lon_sec),
         lat_sec |-> IntOf(sl.lat_sec),
         lon_std |-> IntOf(sl.lon_std),
         lat_std |-> IntOf(sl.lat_std)]

ValueError == [ok |-> FALSE, error |-> "ValueError"]

\* raise ValueError(message)
ValueErrorOf(message) == [ok |-> FALSE, error |-> "ValueError", message |-> message]

\* MeshCodeJP.__init__ with is_dms = False: the object, or the ValueError that
\* int() raises in _coordinates
MeshCodeJP(lon, lat) ==
    LET mesh == Call("_mesh_code", <<lon, lat>>)
        sl == CoordinateSlices(mesh)
    IN  Do(<<mesh>>,
        IF \A k \in DOMAIN sl : IntOk(sl[k])
        THEN [ok |-> TRUE,
              first_mesh_code |-> mesh.first_mesh_code,
              secandary_mesh_code |-> mesh.secandary_mesh_code,
              standard_mesh_code |-> mesh.standard_mesh_code,
              half_mesh_code |-> mesh.half_mesh_code,
              quarter_mesh_code |-> mesh.quarter_mesh_code,
              _cds |-> Call("_coordinates", <<mesh>>)]
        ELSE ValueError)

\* Bounds(x_min, y_min, x_max, y_max) from the four scaled integers: each
\* field is the float x_int / SCALE
BoundsOfInts(x_min_int, y_min_int, x_max_int, y_max_int) ==
    [ok |-> TRUE,
     x_min |-> PyTrueDiv(x_min_int, SCALE),
     y_min |-> PyTrueDiv(y_min_int, SCALE),
     x_max |-> PyTrueDiv(x_max_int, SCALE),
     y_max |-> PyTrueDiv(y_max_int, SCALE)]

\* a division of SCALE that rounds up
ScaleDivUp(n) == Call("BDivMod", <<BAdd(SCALE, BFromNat(n - 1)), BFromNat(n)>>).q

\* SCALE // n
ScaleDiv(n) == Call("BDivMod", <<SCALE, BFromNat(n)>>).q

\* the first-level cell of (lat, lon): MeshCodeJP.first_mesh and the "1st"
\* branch of MeshCodeTo.to_bounds
FirstBounds(lat, lon) ==
    LET first_lon_size_int == SCALE
        first_lat_size_int == Call("BDivMod", <<BMulSmall(SCALE, 2), <<3>> >>).q
    IN  Call("BoundsOfInts", <<BMulSmall(first_lon_size_int, lon), BMulSmall(first_lat_size_int, lat), BMulSmall(first_lon_size_int, lon + 1), BMulSmall(first_lat_size_int, lat + 1)>>)

\* MeshCodeJP.first_mesh
first_mesh(self) ==
    Call("FirstBounds", <<IntOf(Slice(self.first_mesh_code, 0, 2)), IntOf(Slice(self.first_mesh_code, 2, 4)) + 100>>)

\* the second-level cell: MeshCodeJP.secandary_mesh and the "2nd" branch of
\* MeshCodeTo.to_bounds
SecondBounds(lat, lon, lat_sec, lon_sec) ==
    LET lon_scaled == BMulSmall(SCALE, lon)
        lat_base_scaled == Call("FToBig", <<Call("FMul", <<PyTrueDiv(BFromNat(lat * 40), <<60>>), FFromBig(SCALE)>>)>>)
        sec_lon_size_int == ScaleDiv(8)
        sec_lat_size_int == ScaleDiv(12)
    IN  Do(<<lon_scaled, lat_base_scaled, sec_lon_size_int, sec_lat_size_int>>,
           Call("BoundsOfInts", <<BAdd(lon_scaled, BMulSmall(sec_lon_size_int, lon_sec)), BAdd(lat_base_scaled, BMulSmall(sec_lat_size_int, lat_sec)), BAdd(lon_scaled, BMulSmall(sec_lon_size_int, lon_sec + 1)), BAdd(lat_base_scaled, BMulSmall(sec_lat_size_int, lat_sec + 1))>>))

\* MeshCodeJP.secandary_mesh
secandary_mesh(self) ==
    Call("SecondBounds", <<self._cds.lat, self._cds.lon, self._cds.lat_sec, self._cds.lon_sec>>)

\* the standard cell: MeshCodeJP.standard_mesh and the "standard" branch of
\* MeshCodeTo.to_bounds
StandardBounds(lat, lon, lat_sec, lon_sec, lat_std, lon_std) ==
    LET sec_x_min == Call("FAdd", <<F(lon), FDiv(Call("FMul", <<F(lon_sec), F7_5>>), F(60))>>)
        sec_y_min == Call("FAdd", <<PyTrueDiv(BFromNat(lat * 40), <<60>>), PyTrueDiv(BFromNat(lat_sec * 5), <<60>>)>>)
        sec_x_min_int == Call("FToBig", <<Call("FMul", <<sec_x_min, FFromBig(SCALE)>>)>>)
        sec_y_min_int == Call("FToBig", <<Call("FMul", <<sec_y_min, FFromBig(SCALE)>>)>>)
        std_lon_size_int == ScaleDiv(80)
        std_lat_size_int == ScaleDiv(120)
    IN  Do(<<sec_x_min, sec_y_min, sec_x_min_int, sec_y_min_int,
             std_lon_size_int, std_lat_size_int>>,
           Call("BoundsOfInts", <<BAdd(sec_x_min_int, BMulSmall(std_lon_size_int, lon_std)), BAdd(sec_y_min_int, BMulSmall(std_lat_size_int, lat_std)), BAdd(sec_x_min_int, BMulSmall(std_lon_size_int, lon_std + 1)), BAdd(sec_y_min_int, BMulSmall(std_lat_size_int, lat_std + 1))>>))

\* MeshCodeJP.standard_mesh
standard_mesh(self) ==
    LET cds == self._cds
    IN  Call("StandardBounds", <<cds.lat, cds.lon, cds.lat_sec, cds.lon_sec, cds.lat_std, cds.lon_std>>)

\* a quadrant check that lets every digit through
AnyQuadrant(code) == code \in 0..9

\* the quadrant digit's offsets, or the ValueError of the else branch
QuadrantOk(code) == code \in 1..4
x_offset(code) == IF code \in {2, 4} THEN 1 ELSE 0
y_offset(code) == IF code \in {3, 4} THEN 1 ELSE 0

\* the cell of quadrant `code` of the cell whose lower-left corner is the
\* Decimal pair (x_min, y_min), cells being SCALE // nx by SCALE // ny
QuadrantBounds(x_min, y_min, code, nx, ny) ==
    LET x_min_int == Call("DToBig", <<Call("DMul", <<x_min, DFromInt(SCALE)>>)>>)
        y_min_int == Call("DToBig", <<Call("DMul", <<y_min, DFromInt(SCALE)>>)>>)
        lon_size_int == ScaleDiv(nx)
        lat_size_int == ScaleDiv(ny)
    IN  Do(<<x_min_int, y_min_int, lon_size_int, lat_size_int>>,
           Call("BoundsOfInts", <<BAdd(x_min_int, BMulSmall(lon_size_int, x_offset(code))), BAdd(y_min_int, BMulSmall(lat_size_int, y_offset(code))), BAdd(x_min_int, BMulSmall(lon_size_int, x_offset(code) + 1)), BAdd(y_min_int, BMulSmall(lat_size_int, y_offset(code) + 1))>>))

\* MeshCodeJP.half_mesh
half_mesh(self) ==
    LET half_code == IntOf(Slice(self.half_mesh_code, 8, 9))
        standard_bounds == standard_mesh(self)
    IN  Do(<<standard_bounds>>,
           IF ~QuadrantOk(half_code) THEN ValueError
           ELSE Call("QuadrantBounds", <<Call("DOfFloat", <<standard_bounds.x_min>>), Call("DOfFloat", <<standard_bounds.y_min>>), half_code, 160, 240>>))

\* MeshCodeJP.quarter_mesh
quarter_mesh(self) ==
    LET half_code == IntOf(Slice(self.quarter_mesh_code, 8, 9))
        quarter_code == IntOf(Slice(self.quarter_mesh_code, 9, 10))
        standard_bounds == standard_mesh(self)
        std_x_min == Call("DOfFloat", <<standard_bounds.x_min>>)
        std_y_min == Call("DOfFloat", <<standard_bounds.y_min>>)
        half_x_min == Call("DAdd", <<std_x_min, Call("DDiv", <<Call("DMul", <<DFromInt(BFromNat(x_offset(half_code))), DLit(375, -3)>>), DFromInt(<<60>>)>>)>>)
        half_y_min == Call("DAdd", <<std_y_min, Call("DDiv", <<Call("DMul", <<DFromInt(BFromNat(y_offset(half_code))), DLit(25, -2)>>), DFromInt(<<60>>)>>)>>)
    IN  Do(<<standard_bounds, std_x_min, std_y_min, half_x_min, half_y_min>>,
           IF ~QuadrantOk(half_code) \/ ~QuadrantOk(quarter_code) THEN ValueError
           ELSE Call("QuadrantBounds", <<half_x_min, half_y_min, quarter_code, 320, 480>>))

\* a dispatch that takes a longer string for the code its first characters are
MeshTypeOfPrefix(mesh_code) ==
    CASE Len(mesh_code) \in {4, 5} -> "1st"
      [] Len(mesh_code) \in {6, 7} -> "2nd"
      [] Len(mesh_code) = 8 -> "standard"
      [] Len(mesh_code) = 9 -> "half"
      [] Len(mesh_code) >= 10 -> "quarter"
      [] OTHER -> ""

\* MeshCodeTo._check_mesh_code: the mesh type, or "" for the ValueError
mesh_type(mesh_code) ==
    CASE Len(mesh_code) = 4 -> "1st"
      [] Len(mesh_code) = 6 -> "2nd"
      [] Len(mesh_code) = 8 -> "standard"
      [] Len(mesh_code) = 9 -> "half"
      [] Len(mesh_code) = 10 -> "quarter"
      [] OTHER -> ""

\* MeshCodeTo.to_bounds (mesh_code_to_bounds): the Bounds, or ValueError
to_bounds(mesh_code) ==
    LET ty == mesh_type(mesh_code)
        int(a, b) == IntOf(Slice(mesh_code, a, b))
        ok(a, b) == IntOk(Slice(mesh_code, a, b))
    IN  CASE ty = "1st" ->
               IF ok(0, 2) /\ ok(2, 4)
               THEN Call("FirstBounds", <<int(0, 2), int(2, 4) + 100>>)
               ELSE ValueError
          [] ty = "2nd" ->
               IF ok(0, 2) /\ ok(2, 4) /\ ok(4, 5) /\ ok(5, 6)
               THEN Call("SecondBounds", <<int(0, 2), int(2, 4) + 100, int(4, 5), int(5, 6)>>)
               ELSE ValueError
          [] ty = "standard" ->
               IF ok(0, 2) /\ ok(2, 4) /\ ok(4, 5) /\ ok(5, 6) /\ ok(6, 7) /\ ok(7, 8)
               THEN Call("StandardBounds", <<int(0, 2), int(2, 4) + 100, int(4, 5), int(5, 6), int(6, 7), int(7, 8)>>)
               ELSE ValueError
          [] ty = "half" ->
               LET std_bounds == Call("to_bounds", <<Slice(mesh_code, 0, 8)>>)
               IN  IF ~ok(8, 9) \/ ~std_bounds.ok \/ ~QuadrantOk(int(8, 9)) THEN ValueError
                   ELSE Call("QuadrantBounds", <<Call("DOfFloat", <<std_bounds.x_min>>), Call("DOfFloat", <<std_bounds.y_min>>), int(8, 9), 160, 240>>)
          [] ty = "quarter" ->
               LET half_bounds == Call("to_bounds", <<Slice(mesh_code, 0, 9)>>)
               IN  IF ~ok(9, 10) \/ ~half_bounds.ok \/ ~QuadrantOk(int(9, 10)) THEN ValueError
                   ELSE Call("QuadrantBounds", <<Call("DOfFloat", <<half_bounds.x_min>>), Call("DOfFloat", <<half_bounds.y_min>>), int(9, 10), 320, 480>>)
          [] OTHER -> ValueErrorOf("Invalid mesh code length")

MeshNames == <<"1st", "2nd", "standard", "half", "quarter">>

\* _get_step: the sampling steps of a mesh name, in degrees
_get_step(mesh_name) ==
    CASE mesh_name = "1st" ->
           [ok |-> TRUE, lon |-> Call("FLit", <<1, 0, 1>>), lat |-> PyTrueDiv(<<40>>, <<60>>)]
      [] mesh_name = "2nd" ->
           [ok |-> TRUE, lon |-> FDiv(F7_5, F(60)), lat |-> PyTrueDiv(<<5>>, <<60>>)]
      [] mesh_name = "standard" ->
           [ok |-> TRUE, lon |-> FDiv(Call("FLit", <<0, 75, 2>>), F(60)),
            lat |-> FDiv(Call("FLit", <<0, 5, 1>>), F(60))]
      [] mesh_name = "half" ->
           [ok |-> TRUE, lon |-> FDiv(FDiv(Call("FLit", <<0, 375, 3>>), F(60)), F(3)),
            lat |-> FDiv(FDiv(Call("FLit", <<0, 25, 2>>), F(60)), F(3))]
      [] mesh_name = "quarter" ->
           [ok |-> TRUE, lon |-> FDiv(FDiv(Call("FLit", <<0, 1875, 4>>), F(60)), F(10)),
            lat |-> FDiv(FDiv(Call("FLit", <<0, 125, 3>>), F(60)), F(10))]
      [] OTHER -> ValueErrorOf("mesh_name must be one of")

\* one side of _resize_mesh: v - (v % step)
ResizeMin(v, step) == FSub(v, Call("PyMod", <<v, step>>))

\* one side of _resize_mesh: v + (step - (v % step)) if (v % step) != 0 else v
ResizeMax(v, step) ==
    IF ~FIsZero(Call("PyMod", <<v, step>>)) THEN Call("FAdd", <<v, FSub(step, Call("PyMod", <<v, step>>))>>) ELSE v

\* a check that lets every name through
AnyName(value, names) == TRUE

\* the decorator valid_names: the value is one of the names
valid_names(value, names) == \E n \in 1..Len(names) : names[n] = value

\* _resize_mesh under @valid_names(arg_index=4, kward="mesh_name", ...)
_resize_mesh(x_min, y_min, x_max, y_max, mesh_name) ==
    IF ~valid_names(mesh_name, MeshNames)
    THEN ValueErrorOf("Argument 'mesh_name' must be one of")
    ELSE LET steps == Call("_get_step", <<mesh_name>>)
         IN  IF ~steps.ok THEN steps
             ELSE [ok |-> TRUE,
                   x_min |-> Call("ResizeMin", <<x_min, steps.lon>>),
                   y_min |-> Call("ResizeMin", <<y_min, steps.lat>>),
                   x_max |-> Call("ResizeMax", <<x_max, steps.lon>>),
                   y_max |-> Call("ResizeMax", <<y_max, steps.lat>>)]

\* a range check that lets a box without width or height through
EmptyRangeOnly(x_min, y_min, x_max, y_max) == FLt(x_max, x_min) \/ FLt(y_max, y_min)

\* generate_jpmesh's range check: x_min >= x_max or y_min >= y_max
InvalidRange(x_min, y_min, x_max, y_max) == FLe(x_max, x_min) \/ FLe(y_max, y_min)

\* the code of an object at a mesh name (generate_jpmesh's if-chain)
CodeOf(mesh, mesh_name) ==
    CASE mesh_name = "1st" -> mesh.first_mesh_code
      [] mesh_name = "2nd" -> mesh.secandary_mesh_code
      [] mesh_name = "standard" -> mesh.standard_mesh_code
      [] mesh_name = "half" -> mesh.half_mesh_code
      [] mesh_name = "quarter" -> mesh.quarter_mesh_code

\* the bounds method of an object at a mesh name (generate_jpmesh's if-chain)
BoundsOf(mesh, mesh_name) ==
    CASE mesh_name = "1st" -> first_mesh(mesh)
      [] mesh_name = "2nd" -> secandary_mesh(mesh)
      [] mesh_name = "standard" -> standard_mesh(mesh)
      [] mesh_name = "half" -> Call("half_mesh", <<mesh>>)
      [] mesh_name = "quarter" -> Call("quarter_mesh", <<mesh>>)

(***************************************************************************)
(* glmesh.py: XYZ tiles.  A longitude is a float of degrees.  The program  *)
(* reads a latitude only through log(tan(lat) + 1 / cos(lat)) and writes   *)
(* one only as degrees(atan(sinh(pi * t))), so a latitude is written here  *)
(* by the float t = asinh(tan(lat)) / pi, its Mercator ordinate as a       *)
(* fraction of the half world: the equator is 0, the northern edge is 1.   *)
(* A coordinate reference system is written by its name, "EPSG:4326".      *)
(***************************************************************************)
DECIMAL_PLACES == 4
FLOOR_NUM == 10^DECIMAL_PLACES

TypeError == [ok |-> FALSE, error |-> "TypeError"]
KeyError == [ok |-> FALSE, error |-> "KeyError"]

\* the decorator of floor, from_lonlat, from_tile_idx and tiles: the function
\* receives int(value), the whole number toward zero
type_checker_integer(value) == Call("FTrunc", <<value>>)

\* floor as its caller sees it: the decorator hands the body the Python int i
\* = int(value); i * FLOOR_NUM is an int, math.floor leaves it alone, and the
\* true division gives the float
floor(value) ==
    LET i == type_checker_integer(value)
        quotient == PyTrueDiv(BMulSmall(Call("FToBig", <<i>>), FLOOR_NUM), BFromNat(FLOOR_NUM))
    IN  IF i.s = 1 THEN quotient ELSE FNeg(quotient)

\* the extent of EPSG:3857: 20037508.342789244 metres either way
tile_scope ==
    LET x_max == Call("FRatio", <<1, BAdd(BMul(BFromNat(200375083), Call("BPow10", <<8>>)), BFromNat(42789244)), Call("BPow10", <<9>>), 0>>)
    IN  [ok |-> TRUE, x_min |-> FNeg(x_max), y_min |-> FNeg(x_max),
         x_max |-> x_max, y_max |-> x_max]

\* a transformation that leaves the coordinates as they are
TransformIdentity(x, y, in_crs, out_crs) == [x |-> x, y |-> y]

\* transform_xy between EPSG:4326 and EPSG:3857: pyproj's spherical Mercator,
\* x = R * radians(lon) and y = R * asinh(tan(lat)), with pi * R the half world
transform_xy(x, y, in_crs, out_crs) ==
    CASE in_crs = out_crs -> [x |-> x, y |-> y]
      [] in_crs = "EPSG:4326" /\ out_crs = "EPSG:3857" ->
            [x |-> FDiv(Call("FMul", <<x, tile_scope.x_max>>), F(180)), y |-> Call("FMul", <<y, tile_scope.y_max>>)]
      [] in_crs = "EPSG:3857" /\ out_crs = "EPSG:4326" ->
            [x |-> FDiv(Call("FMul", <<x, F(180)>>), tile_scope.x_max), y |-> FDiv(y, tile_scope.y_max)]

\* a signed int as a float
FInt(n) == IF n < 0 THEN FNeg(F(-n)) ELSE F(n)

\* the exception of a float division by zero
ZeroDivisionError == [ok |-> FALSE, error |-> "ZeroDivisionError"]

\* TileDesigner.__init__: the width and height of a tile in pixels, and its
\* CRS; TileDesigner is not a dataclass, so nothing calls its __post_init__
TileDesigner(width, height) ==
    [ok |-> TRUE, width |-> width, height |-> height, crs |-> "EPSG:3857"]

\* TileDesigner.lonlat_to_tile_idx: _y / math.pi is the latitude as written
lonlat_to_tile_idx(lon, lat, zoom_level, in_crs) ==
    LET xy == IF in_crs # "EPSG:4326" THEN Call("transform_xy", <<lon, lat, in_crs, "EPSG:4326">>)
              ELSE [x |-> lon, y |-> lat]
        n == F(2^zoom_level)
        x_index == FToInt(Call("FMul", <<FDiv(Call("FAdd", <<xy.x, F(180)>>), F(360)), n>>))
        y_index == FToInt(FDiv(Call("FMul", <<n, FSub(FOne, xy.y)>>), F(2)))
    IN  Do(<<xy, n>>, [x |-> x_index, y |-> y_index])

\* the corners of a tile in EPSG:3857 before floor: sw from (lon_min, lat_min),
\* ne from (lon_max, lat_max); pi * (1 - 2 * y / n) is pi times the latitude
TileCorners(self, x, y, zoom_level) ==
    LET n == F(2^zoom_level)
        lon_min == FSub(Call("FMul", <<FDiv(F(x), n), F(360)>>), F(180))
        lat_min == FSub(FOne, FDiv(F(2 * y), n))
        lon_max == FSub(Call("FMul", <<FDiv(F(x + 1), n), F(360)>>), F(180))
        lat_max == FSub(FOne, FDiv(F(2 * (y + 1)), n))
    IN  Do(<<n, lon_min, lat_min, lon_max, lat_max>>,
           [sw |-> Call("transform_xy", <<lon_min, lat_min, "EPSG:4326", self.crs>>),
            ne |-> Call("transform_xy", <<lon_max, lat_max, "EPSG:4326", self.crs>>)])

\* TileDesigner._tile_idx_to_bounds
_tile_idx_to_bounds(self, x, y, zoom_level) ==
    LET c == Call("TileCorners", <<self, x, y, zoom_level>>)
    IN  Do(<<c>>, [ok |-> TRUE, x_min |-> Call("floor", <<c.sw.x>>), y_min |-> Call("floor", <<c.sw.y>>),
                   x_max |-> Call("floor", <<c.ne.x>>), y_max |-> Call("floor", <<c.ne.y>>)])

\* the dataclass TileDesign
TileDesign(zoom_level, x_idx, y_idx, bounds_, width, height) ==
    [ok |-> TRUE, zoom_level |-> zoom_level, x_idx |-> x_idx, y_idx |-> y_idx,
     bounds |-> bounds_, width |-> width, height |-> height]

\* TileDesign.x_resolution and TileDesign.y_resolution
x_resolution(self) ==
    IF self.width = 0 THEN ZeroDivisionError
    ELSE Call("floor", <<FDiv(FSub(self.bounds.x_max, self.bounds.x_min), FInt(self.width))>>)
y_resolution(self) ==
    IF self.height = 0 THEN ZeroDivisionError
    ELSE Call("floor", <<FDiv(FSub(self.bounds.y_max, self.bounds.y_min), FInt(self.height))>>)

\* type_checker_zoom_level: the ValueError for a zoom level outside 0..24 is
\* raised inside the try and reaches the caller as a TypeError
type_checker_zoom_level(zoom_level) == zoom_level \in 0..24

\* TileDesigner.from_lonlat
from_lonlat(self, lon, lat, zoom_level, in_crs) ==
    IF ~type_checker_zoom_level(zoom_level) THEN TypeError
    ELSE LET tile_idx == Call("lonlat_to_tile_idx", <<lon, lat, zoom_level, in_crs>>)
         IN  Do(<<tile_idx>>,
                TileDesign(zoom_level, tile_idx.x, tile_idx.y,
                           Call("_tile_idx_to_bounds", <<self, tile_idx.x, tile_idx.y, zoom_level>>),
                           self.width, self.height))

\* TileDesigner.from_tile_idx
from_tile_idx(self, x, y, zoom_level) ==
    IF ~type_checker_zoom_level(zoom_level) THEN TypeError
    ELSE TileDesign(zoom_level, x, y, Call("_tile_idx_to_bounds", <<self, x, y, zoom_level>>),
                    self.width, self.height)

\* a range that runs through stop
RangeThroughStop(start, stop) == [k \in 1..Max2(0, stop - start + 1) |-> start + k - 1]

\* range(start, stop) as a sequence
range(start, stop) == [k \in 1..Max2(0, stop - start) |-> start + k - 1]

\* the loops of tiles over range(sw.x, ne.x + 1) and range(ne.y, sw.y + 1),
\* x outermost: the index pairs in the order of the appends
TileRange(sw_tile_idx, ne_tile_idx) ==
    LET xs == range(sw_tile_idx.x, ne_tile_idx.x + 1)
        ys == range(ne_tile_idx.y, sw_tile_idx.y + 1)
    IN  [k \in 1..(Len(xs) * Len(ys)) |->
            [x |-> xs[((k - 1) \div Len(ys)) + 1], y |-> ys[((k - 1) % Len(ys)) + 1]]]

\* TileDesigner.tiles with geodataframe = False; in_crs = "omitted" is a call
\* without the argument, which type_checker_crs looks up in kwargs
tiles(self, x_min, y_min, x_max, y_max, zoom_level, in_crs) ==
    IF ~type_checker_zoom_level(zoom_level) THEN TypeError
    ELSE IF in_crs = "omitted" THEN KeyError
    ELSE LET sw_tile_idx == Call("lonlat_to_tile_idx", <<x_min, y_min, zoom_level, in_crs>>)
             ne_tile_idx == Call("lonlat_to_tile_idx", <<x_max, y_max, zoom_level, in_crs>>)
             idx == Call("TileRange", <<sw_tile_idx, ne_tile_idx>>)
         IN  Do(<<sw_tile_idx, ne_tile_idx, idx>>,
                [ok |-> TRUE,
                 designs |-> [k \in 1..Len(idx) |-> Call("from_tile_idx", <<self, idx[k].x, idx[k].y, zoom_level>>)]])

(***************************************************************************)
(* square.py                                                               *)
(***************************************************************************)
\* Python's None
None == [ok |-> FALSE, error |-> "None"]

\* DIGITS = 10**10
DIGITS == Call("BPow10", <<10>>)

\* int(value * DIGITS), for a value that is not negative
ScaledInt(value) == Call("FToBig", <<Call("FMul", <<value, FFromBig(DIGITS)>>)>>)

\* create_square_from_length with vertical given, on scaled integers
create_square_from_length(x_min, y_max, horizontal, vertical) ==
    [x_min |-> x_min, y_min |-> BSub(y_max, vertical),
     x_max |-> BAdd(x_min, horizontal), y_max |-> y_max]

\* SquareMesh.__init__
SquareMesh(x_min, y_min, x_max, y_max) ==
    [bounds |-> [x_min |-> x_min, y_min |-> y_min, x_max |-> x_max, y_max |-> y_max]]

\* how many items range(start, stop, step) has when start < stop and step > 0
RangeLen(start, stop, step) ==
    BToNat(Call("BDivMod", <<BSub(BSub(stop, start), <<1>>), step>>).q) + 1

\* range(start, stop, step) with step > 0, as a sequence
RangeBy(start, stop, step) ==
    IF ~BLt(start, stop) THEN <<>>
    ELSE [k \in 1..Call("RangeLen", <<start, stop, step>>) |-> BAdd(start, BMulSmall(step, k - 1))]

\* range(start, stop, -step) with step > 0, as a sequence
RangeDownBy(start, stop, step) ==
    IF ~BLt(stop, start) THEN <<>>
    ELSE [k \in 1..Call("RangeLen", <<stop, start, step>>) |-> BSub(start, BMulSmall(step, k - 1))]

\* Bounds(*[v / DIGITS for v in square])
Unscaled(square) ==
    [ok |-> TRUE,
     x_min |-> PyTrueDiv(square.x_min, DIGITS), y_min |-> PyTrueDiv(square.y_min, DIGITS),
     x_max |-> PyTrueDiv(square.x_max, DIGITS), y_max |-> PyTrueDiv(square.y_max, DIGITS)]

\* SquareMesh.generate_squares_from_length: the columns id, xy and geometry
\* of the GeoDataFrame, or the ValueError of range() for a step of zero
generate_squares_from_length(self, horizontal_, vertical_) ==
    LET x_min == Call("ScaledInt", <<self.bounds.x_min>>)
        y_max == Call("ScaledInt", <<self.bounds.y_max>>)
        x_max == Call("ScaledInt", <<self.bounds.x_max>>)
        y_min == Call("ScaledInt", <<self.bounds.y_min>>)
        horizontal == Call("ScaledInt", <<horizontal_>>)
        vertical == Call("ScaledInt", <<IF vertical_ = None THEN horizontal_ ELSE vertical_>>)
    IN  IF vertical = <<>> THEN ValueErrorOf("range() arg 3 must not be zero")
        ELSE LET ys == Call("RangeDownBy", <<y_max, y_min, vertical>>)
             IN  IF ys # <<>> /\ horizontal = <<>>
                 THEN ValueErrorOf("range() arg 3 must not be zero")
                 ELSE LET xs == Call("RangeBy", <<x_min, x_max, horizontal>>)
                          n == Len(ys) * Len(xs)
                          x_id(k) == (k - 1) % Len(xs)
                          y_id(k) == (k - 1) \div Len(xs)
                      IN  [ok |-> TRUE,
                           id |-> [k \in 1..n |-> k - 1],
                           xy |-> [k \in 1..n |-> Str(x_id(k)) \o <<"/">> \o Str(y_id(k))],
                           geometry |->
                               [k \in 1..n |->
                                   Call("Unscaled", <<Call("create_square_from_length", <<xs[x_id(k) + 1], ys[y_id(k) + 1], horizontal, vertical>>)>>)]]

(***************************************************************************)
(* Call: an operation, by name, on the values of its arguments             *)
(***************************************************************************)
Call(op, a) ==
    Do(a,
       CASE op = "BDivMod" -> BDivMod(a[1], a[2])
         [] op = "BDivSmall" -> BDivSmall(a[1], a[2])
         [] op = "FRound" -> FRound(a[1], a[2], a[3])
         [] op = "FAt" -> FAt(a[1], a[2])
         [] op = "FMagCmp" -> FMagCmp(a[1], a[2])
         [] op = "FCmp" -> FCmp(a[1], a[2])
         [] op = "FAdd" -> FAdd(a[1], a[2])
         [] op = "FMul" -> FMul(a[1], a[2])
         [] op = "FRatio" -> FRatio(a[1], a[2], a[3], a[4])
         [] op = "Fmod" -> Fmod(a[1], a[2])
         [] op = "FFloor" -> FFloor(a[1])
         [] op = "FTrunc" -> FTrunc(a[1])
         [] op = "FToBig" -> FToBig(a[1])
         [] op = "PyDivmod" -> PyDivmod(a[1], a[2])
         [] op = "PyMod" -> PyMod(a[1], a[2])
         [] op = "PyModf" -> PyModf(a[1])
         [] op = "BPow10" -> BPow10(a[1])
         [] op = "FLit" -> FLit(a[1], a[2], a[3])
         [] op = "BDecLen" -> BDecLen(a[1])
         [] op = "DRound" -> DRound(a[1], a[2])
         [] op = "DMul" -> DMul(a[1], a[2])
         [] op = "DAdd" -> DAdd(a[1], a[2])
         [] op = "DDiv" -> DDiv(a[1], a[2])
         [] op = "DToBig" -> DToBig(a[1])
         [] op = "FOfDec" -> FOfDec(a[1], a[2])
         [] op = "RoundRatio" -> RoundRatio(a[1], a[2], a[3])
         [] op = "DecDigits" -> DecDigits(a[1], a[2])
         [] op = "DOfFloat" -> DOfFloat(a[1])
         [] op = "_mesh_code" -> _mesh_code(a[1], a[2])
         [] op = "_coordinates" -> _coordinates(a[1])
         [] op = "MeshCodeJP" -> MeshCodeJP(a[1], a[2])
         [] op = "BoundsOfInts" -> BoundsOfInts(a[1], a[2], a[3], a[4])
         [] op = "FirstBounds" -> FirstBounds(a[1], a[2])
         [] op = "SecondBounds" -> SecondBounds(a[1], a[2], a[3], a[4])
         [] op = "StandardBounds" -> StandardBounds(a[1], a[2], a[3], a[4], a[5], a[6])
         [] op = "QuadrantBounds" -> QuadrantBounds(a[1], a[2], a[3], a[4], a[5])
         [] op = "half_mesh" -> half_mesh(a[1])
         [] op = "quarter_mesh" -> quarter_mesh(a[1])
         [] op = "to_bounds" -> to_bounds(a[1])
         [] op = "_get_step" -> _get_step(a[1])
         [] op = "ResizeMin" -> ResizeMin(a[1], a[2])
         [] op = "ResizeMax" -> ResizeMax(a[1], a[2])
         [] op = "_resize_mesh" -> _resize_mesh(a[1], a[2], a[3], a[4], a[5])
         [] op = "CodeOf" -> CodeOf(a[1], a[2])
         [] op = "BoundsOf" -> BoundsOf(a[1], a[2])
         [] op = "floor" -> floor(a[1])
         [] op = "transform_xy" -> transform_xy(a[1], a[2], a[3], a[4])
         [] op = "lonlat_to_tile_idx" -> lonlat_to_tile_idx(a[1], a[2], a[3], a[4])
         [] op = "TileCorners" -> TileCorners(a[1], a[2], a[3], a[4])
         [] op = "_tile_idx_to_bounds" -> _tile_idx_to_bounds(a[1], a[2], a[3], a[4])
         [] op = "x_resolution" -> x_resolution(a[1])
         [] op = "y_resolution" -> y_resolution(a[1])
         [] op = "from_lonlat" -> from_lonlat(a[1], a[2], a[3], a[4], a[5])
         [] op = "from_tile_idx" -> from_tile_idx(a[1], a[2], a[3], a[4])
         [] op = "TileRange" -> TileRange(a[1], a[2])
         [] op = "tiles" -> tiles(a[1], a[2], a[3], a[4], a[5], a[6], a[7])
         [] op = "ScaledInt" -> ScaledInt(a[1])
         [] op = "create_square_from_length" -> create_square_from_length(a[1], a[2], a[3], a[4])
         [] op = "RangeLen" -> RangeLen(a[1], a[2], a[3])
         [] op = "RangeBy" -> RangeBy(a[1], a[2], a[3])
         [] op = "RangeDownBy" -> RangeDownBy(a[1], a[2], a[3])
         [] op = "Unscaled" -> Unscaled(a[1])
         [] op = "generate_squares_from_length" -> generate_squares_from_length(a[1], a[2], a[3]))

(***************************************************************************)
(* State                                                                   *)
(***************************************************************************)
VARIABLES
    pc,           \* where the caller is
    lon, lat,     \* the coordinates handed to MeshCodeJP (floats)
    mesh,         \* the MeshCodeJP object, or the exception of its constructor
    mesh_bounds,  \* mesh name -> what the object's bounds method returned
    decoded,      \* mesh name -> what mesh_code_to_bounds returned for its code
    mesh_code,    \* the code handed to mesh_code_to_bounds
    query,        \* the arguments of generate_jpmesh
    bounds,       \* generate_jpmesh: what _resize_mesh returned or raised
    mesh_dict,    \* generate_jpmesh: the cells found so far, in insertion order
    call,         \* the arguments handed to a method of TileDesigner or SquareMesh
    design,       \* what from_lonlat or from_tile_idx returned
    designs,      \* what tiles returned
    centre,       \* the tile index of the centre of design's bounds
    gdf,          \* what generate_squares_from_length returned
    exception     \* the exception that reached the caller, None without one

vars == <<pc, lon, lat, mesh, mesh_bounds, decoded, mesh_code, query, bounds, mesh_dict,
          call, design, designs, centre, gdf, exception>>

NoBounds == [n \in 1..5 |-> None]
NoQuery == [x_min |-> FZero, y_min |-> FZero, x_max |-> FZero, y_max |-> FZero,
            mesh_name |-> ""]

Idle ==
    /\ pc = "idle"
    /\ lon = FZero
    /\ lat = FZero
    /\ mesh = None
    /\ mesh_bounds = NoBounds
    /\ decoded = NoBounds
    /\ mesh_code = <<>>
    /\ query = NoQuery
    /\ bounds = None
    /\ mesh_dict = <<>>
    /\ call = None
    /\ design = None
    /\ designs = None
    /\ centre = None
    /\ gdf = None
    /\ exception = None

Init == Idle

\* the caller drops what it holds
Discard ==
    /\ pc \in {"done", "raised"}
    /\ pc' = "idle"
    /\ lon' = FZero
    /\ lat' = FZero
    /\ mesh' = None
    /\ mesh_bounds' = NoBounds
    /\ decoded' = NoBounds
    /\ mesh_code' = <<>>
    /\ query' = NoQuery
    /\ bounds' = None
    /\ mesh_dict' = <<>>
    /\ call' = None
    /\ design' = None
    /\ designs' = None
    /\ centre' = None
    /\ gdf' = None
    /\ exception' = None

(***************************************************************************)
(* Spec: a caller constructs Call("MeshCodeJP", <<lon, lat>>), calls its five bounds   *)
(* methods, and decodes its five codes with mesh_code_to_bounds            *)
(***************************************************************************)
\* how many points of the quarter-level grid, counted from a grid corner in
\* each direction, the caller tries besides the named coordinates
GridSteps == 1

\* coordinates as decimal literals <<integer part, fraction digits, number of
\* fraction digits>>: those of the tests, and coordinates on and next to cell
\* edges, below 110 degrees east, north of 66.67 degrees, and east of 180
\* degrees and north of 90 degrees
NamedPoints ==
    { <<<<139, 7417, 4>>, <<35, 6581, 4>>>>,
      <<<<139, 6917, 4>>, <<35, 6895, 4>>>>,
      <<<<139, 0, 1>>, <<36, 0, 1>>>>,
      <<<<139, 0, 1>>, <<35, 5, 1>>>>,
      <<<<139, 5, 1>>, <<36, 0, 1>>>>,
      <<<<139, 5, 1>>, <<35, 999999999, 9>>>>,
      <<<<139, 5, 1>>, <<35, 99, 2>>>>,
      <<<<139, 999999999, 9>>, <<35, 5, 1>>>>,
      <<<<139, 7, 1>>, <<35, 6, 1>>>>,
      <<<<139, 1, 1>>, <<35, 4, 1>>>>,
      <<<<140, 0, 1>>, <<36, 0, 1>>>>,
      <<<<105, 5, 1>>, <<35, 0, 1>>>>,
      <<<<139, 5, 1>>, <<3, 0, 1>>>>,
      <<<<139, 5, 1>>, <<70, 0, 1>>>>,
      <<<<179, 99, 2>>, <<66, 0, 1>>>>,
      <<<<181, 0, 1>>, <<35, 0, 1>>>>,
      <<<<139, 5, 1>>, <<90, 5, 1>>>> }

\* the floats of a named point
PointOfLiterals(p) ==
    [lon |-> Call("FLit", <<p[1][1], p[1][2], p[1][3]>>), lat |-> Call("FLit", <<p[2][1], p[2][2], p[2][3]>>)]

\* the grid corner (139, 36) and its neighbours on the quarter-level grid:
\* the floats (139 * 320 + i) / 320 and (36 * 480 + j) / 480
GridPoints ==
    { [lon |-> PyTrueDiv(BFromNat(139 * 320 + i), BFromNat(320)),
       lat |-> PyTrueDiv(BFromNat(36 * 480 + j), BFromNat(480))] :
      i \in 0..GridSteps, j \in 0..GridSteps }

Points == {PointOfLiterals(p) : p \in NamedPoints} \cup GridPoints

\* the first mesh name the caller has not asked for yet, 6 when none is left
NextName(f) == IF \A n \in 1..5 : f[n] # None THEN 6 ELSE CHOOSE n \in 1..5 : f[n] = None /\ \A k \in 1..(n - 1) : f[k] # None

\* mesh = MeshCodeJP(lon, lat)
Construct ==
    /\ pc = "idle"
    /\ \E p \in Points :
         /\ lon' = p.lon
         /\ lat' = p.lat
         /\ mesh' = Call("MeshCodeJP", <<p.lon, p.lat>>)
    /\ pc' = IF mesh'.ok THEN "mesh" ELSE "raised"
    /\ UNCHANGED <<mesh_bounds, decoded, mesh_code, query, bounds, mesh_dict>>
    /\ UNCHANGED <<call, design, designs, centre, gdf>>
    /\ exception' = IF mesh'.ok THEN None ELSE mesh'

\* mesh.first_mesh(), mesh.secandary_mesh(), ... in turn
CallBounds ==
    /\ pc = "mesh"
    /\ NextName(mesh_bounds) <= 5
    /\ LET n == NextName(mesh_bounds)
       IN  mesh_bounds' = [mesh_bounds EXCEPT ![n] = Call("BoundsOf", <<mesh, MeshNames[n]>>)]
    /\ UNCHANGED <<pc, lon, lat, mesh, decoded, mesh_code, query, bounds, mesh_dict>>
    /\ UNCHANGED <<call, design, designs, centre, gdf>>
    /\ UNCHANGED exception

\* mesh_code_to_bounds(mesh.first_mesh_code), ... in turn
CallDecode ==
    /\ pc = "mesh"
    /\ NextName(mesh_bounds) = 6
    /\ NextName(decoded) <= 5
    /\ LET n == NextName(decoded)
       IN  /\ mesh_code' = Call("CodeOf", <<mesh, MeshNames[n]>>)
           /\ decoded' = [decoded EXCEPT ![n] = Call("to_bounds", <<mesh_code'>>)]
           /\ pc' = IF n = 5 THEN "done" ELSE "mesh"
    /\ UNCHANGED <<lon, lat, mesh, mesh_bounds, query, bounds, mesh_dict>>
    /\ UNCHANGED <<call, design, designs, centre, gdf>>
    /\ UNCHANGED exception

Next == Construct \/ CallBounds \/ CallDecode \/ Discard

Spec == Init /\ [][Next]_vars

(***************************************************************************)
(* Properties of Spec                                                      *)
(***************************************************************************)
\* the encoder's domain: lon in [-180, 180] and lat in [-90, 90]
InDomain ==
    /\ FLe(FNeg(F(180)), lon) /\ FLe(lon, F(180))
    /\ FLe(FNeg(F(90)), lat) /\ FLe(lat, F(90))

\* the point (x, y) lies in the bounds b, lower-left exclusive, upper-right
\* inclusive
Member(b, x, y) ==
    /\ b.ok
    /\ FLt(b.x_min, x) /\ FLe(x, b.x_max)
    /\ FLt(b.y_min, y) /\ FLe(y, b.y_max)

\* the bounds outer contain the bounds inner on all four sides
Contains(outer, inner) ==
    /\ outer.ok /\ inner.ok
    /\ FLe(outer.x_min, inner.x_min) /\ FLe(inner.x_max, outer.x_max)
    /\ FLe(outer.y_min, inner.y_min) /\ FLe(inner.y_max, outer.y_max)

\* the five codes of an object have lengths 4, 6, 8, 9, 10 and are digits only
FixedLengths(m) ==
    /\ m.ok
    /\ \A n \in 1..5 :
         /\ Len(Call("CodeOf", <<m, MeshNames[n]>>)) = <<4, 6, 8, 9, 10>>[n]
         /\ IsDigits(Call("CodeOf", <<m, MeshNames[n]>>))

\* C1 (membership invariant): for a point of the encoder's domain, every
\* bounds b the caller has obtained for a code of MeshCodeJP(lon, lat), from
\* the five bounds methods and from mesh_code_to_bounds, satisfies
\* b.x_min < lon <= b.x_max and b.y_min < lat <= b.y_max
C1_Membership ==
    (InDomain /\ pc \in {"mesh", "done"}) =>
        \A n \in 1..5 :
            /\ mesh_bounds[n] # None => Member(mesh_bounds[n], lon, lat)
            /\ decoded[n] # None => Member(decoded[n], lon, lat)

\* C2 (nesting of the first two levels): once first_mesh() and
\* secandary_mesh() have returned, the first-level bounds contain the
\* second-level bounds on all four sides
C2_FirstContainsSecond ==
    (InDomain /\ mesh_bounds[1] # None /\ mesh_bounds[2] # None) =>
        Contains(mesh_bounds[1], mesh_bounds[2])

\* C3 (hierarchy containment): once the five codes are decoded,
\* decode(second) contains decode(standard), which contains decode(half),
\* which contains decode(quarter), on all four sides
C3_HierarchyContainment ==
    (InDomain /\ pc = "done") =>
        \A n \in 2..4 : Contains(decoded[n], decoded[n + 1])

\* C4 (prefix invariant): each of the five codes of a MeshCodeJP object
\* starts with the code of the level above it
C4_Prefix ==
    (InDomain /\ mesh.ok) =>
        \A n \in 1..4 :
            StartsWith(Call("CodeOf", <<mesh, MeshNames[n + 1]>>), Call("CodeOf", <<mesh, MeshNames[n]>>))

\* an object whose quarter code ends in two different quadrant digits
C4_Witness ==
    /\ InDomain /\ mesh.ok
    /\ Len(mesh.quarter_mesh_code) = 10
    /\ mesh.quarter_mesh_code[9] # mesh.quarter_mesh_code[10]

\* C5 (fixed code lengths): for lon in [-180, 180] and lat in [-90, 90],
\* MeshCodeJP(lon, lat) returns an object whose codes have lengths 4, 6, 8, 9
\* and 10 and are digits only, and mesh_code_to_bounds accepts each of them
C5_FixedLengths ==
    (InDomain /\ pc # "idle") =>
        /\ FixedLengths(mesh)
        /\ \A n \in 1..5 : decoded[n] # None => decoded[n].ok

\* the caller has constructed MeshCodeJP(139.7417, 35.6581)
AtFixture ==
    /\ pc # "idle"
    /\ lon = Call("FLit", <<139, 7417, 4>>)
    /\ lat = Call("FLit", <<35, 6581, 4>>)

C11_ForwardInverseAgree ==
    (InDomain /\ pc = "done") =>
        \A n \in 1..5 : decoded[n].ok /\ mesh_bounds[n].ok /\ decoded[n] = mesh_bounds[n]

\* C21 (out-of-domain coordinates rejected): MeshCodeJP(lon, lat) with lon
\* outside [-180, 180] or lat outside [-90, 90] raises and there is no object
\* with mesh codes
C21_OutOfDomainRejected ==
    (pc # "idle" /\ ~InDomain) => /\ pc = "raised"
                                  /\ ~mesh.ok
                                  /\ exception.error = "ValueError"

(***************************************************************************)
(* RoundTripSpec: a caller decodes a code with mesh_code_to_bounds and     *)
(* constructs MeshCodeJP at the centre of the bounds it got                *)
(***************************************************************************)
\* how many of the quadrant digits 1..4 the caller puts on a code
MaxQuadrant == 2

\* the two-digit latitude and longitude parts the caller tries
FirstCodes ==
    { <<"5", "3", "3", "9">>, <<"3", "6", "2", "2">>,
      <<"0", "5", "3", "9">>, <<"5", "3", "0", "5">> }

\* the digit pairs (latitude, longitude) the caller tries at the second and
\* at the standard level
SecondDigits == { <<"0", "0">>, <<"3", "5">>, <<"7", "7">> }
StandardDigits == { <<"0", "0">>, <<"9", "9">> }
QuadrantDigits == { <<DigitChars[k + 1]>> : k \in 1..MaxQuadrant }

\* valid codes of the five levels
ValidCodes ==
    LET second == {f \o d : f \in FirstCodes, d \in SecondDigits}
        standard == {c \o d : c \in second, d \in StandardDigits}
        half == {c \o d : c \in standard, d \in QuadrantDigits}
        quarter == {c \o d : c \in half, d \in QuadrantDigits}
    IN  FirstCodes \cup second \cup standard \cup half \cup quarter

\* the position of a mesh name in MeshNames
LevelOf(mesh_name) == CHOOSE n \in 1..5 : MeshNames[n] = mesh_name

\* b = mesh_code_to_bounds(c)
Decode ==
    /\ pc = "idle"
    /\ \E c \in ValidCodes :
         /\ mesh_code' = c
         /\ decoded' = [decoded EXCEPT ![LevelOf(mesh_type(c))] = Call("to_bounds", <<c>>)]
         /\ pc' = IF decoded'[LevelOf(mesh_type(c))].ok THEN "decoded" ELSE "raised"
    /\ UNCHANGED <<lon, lat, mesh, mesh_bounds, query, bounds, mesh_dict>>
    /\ UNCHANGED <<call, design, designs, centre, gdf>>
    /\ exception' = IF pc' = "decoded" THEN None ELSE decoded'[LevelOf(mesh_type(mesh_code'))]

\* MeshCodeJP((b.x_min + b.x_max) / 2, (b.y_min + b.y_max) / 2)
EncodeCentre ==
    /\ pc = "decoded"
    /\ LET b == decoded[LevelOf(mesh_type(mesh_code))]
       IN  /\ lon' = FDiv(Call("FAdd", <<b.x_min, b.x_max>>), F(2))
           /\ lat' = FDiv(Call("FAdd", <<b.y_min, b.y_max>>), F(2))
    /\ mesh' = Call("MeshCodeJP", <<lon', lat'>>)
    /\ pc' = IF mesh'.ok THEN "done" ELSE "raised"
    /\ UNCHANGED <<mesh_bounds, decoded, mesh_code, query, bounds, mesh_dict>>
    /\ UNCHANGED <<call, design, designs, centre, gdf>>
    /\ exception' = IF mesh'.ok THEN None ELSE mesh'

RoundTripNext == Decode \/ EncodeCentre \/ Discard

RoundTripSpec == Init /\ [][RoundTripNext]_vars

\* C7 (round trip via centroid): for a valid code c at level L, once c is
\* decoded and MeshCodeJP is constructed at the centre of its bounds, the
\* object exists and its code at level L is c
C7_RoundTrip ==
    pc \in {"done", "raised"} =>
        /\ mesh.ok
        /\ Call("CodeOf", <<mesh, mesh_type(mesh_code)>>) = mesh_code

(***************************************************************************)
(* GenerateSpec: a caller runs generate_jpmesh(x_min, y_min, x_max, y_max, *)
(* mesh_name); the two while loops run one test at a time                  *)
(***************************************************************************)
\* the query boxes the caller tries, as decimal literals <<integer part,
\* fraction digits, number of fraction digits>> and a mesh name
Queries ==
    { <<<<139, 1, 1>>, <<35, 1, 1>>, <<139, 2, 1>>, <<35, 2, 1>>, "1st">>,
      <<<<139, 1, 1>>, <<20, 7, 1>>, <<139, 2, 1>>, <<21, 4, 1>>, "1st">>,
      <<<<139, 1, 1>>, <<20, 7, 1>>, <<140, 2, 1>>, <<21, 4, 1>>, "1st">>,
      <<<<139, 1, 1>>, <<35, 4, 1>>, <<140, 2, 1>>, <<36, 5, 1>>, "1st">>,
      <<<<139, 1, 1>>, <<35, 4, 1>>, <<139, 2, 1>>, <<35, 999999999, 9>>, "1st">>,
      <<<<139, 1, 1>>, <<70, 1, 1>>, <<139, 2, 1>>, <<70, 2, 1>>, "1st">>,
      <<<<139, 2, 1>>, <<35, 1, 1>>, <<139, 1, 1>>, <<35, 2, 1>>, "1st">>,
      <<<<139, 1, 1>>, <<35, 2, 1>>, <<139, 2, 1>>, <<35, 2, 1>>, "2nd">>,
      <<<<105, 1, 1>>, <<35, 1, 1>>, <<105, 2, 1>>, <<35, 2, 1>>, "1st">>,
      <<<<139, 1, 1>>, <<35, 1, 1>>, <<139, 2, 1>>, <<35, 2, 1>>, "2nd">>,
      <<<<139, 51, 2>>, <<35, 51, 2>>, <<139, 7, 1>>, <<35, 6, 1>>, "2nd">>,
      <<<<139, 1, 1>>, <<35, 3, 1>>, <<139, 2, 1>>, <<35, 4, 1>>, "2nd">>,
      <<<<139, 1, 1>>, <<35, 1, 1>>, <<139, 12, 2>>, <<35, 12, 2>>, "standard">>,
      <<<<139, 7001, 4>>, <<35, 6501, 4>>, <<139, 7101, 4>>, <<35, 6551, 4>>, "half">>,
      <<<<139, 7001, 4>>, <<35, 6501, 4>>, <<139, 7011, 4>>, <<35, 6506, 4>>, "quarter">>,
      <<<<139, 1, 1>>, <<35, 1, 1>>, <<139, 2, 1>>, <<35, 2, 1>>, "invalid">>,
      <<<<139, 1, 1>>, <<35, 1, 1>>, <<139, 2, 1>>, <<35, 2, 1>>, "">>,
      <<<<139, 1, 1>>, <<35, 1, 1>>, <<139, 2, 1>>, <<35, 2, 1>>, "3rd">>,
      <<<<140, 0, 1>>, <<35, 0, 1>>, <<139, 0, 1>>, <<36, 0, 1>>, "standard">>,
      <<<<139, 1, 1>>, <<35, 1, 1>>, <<139, 1, 1>>, <<35, 2, 1>>, "half">>,
      <<<<139, 1, 1>>, <<35, 1, 1>>, <<139, 1, 1>>, <<35, 1, 1>>, "quarter">>,
      <<<<139, 1, 1>>, <<35, 2, 1>>, <<139, 2, 1>>, <<35, 1, 1>>, "standard">>,
      <<<<140, 0, 1>>, <<35, 0, 1>>, <<139, 0, 1>>, <<36, 0, 1>>, "invalid">> }

\* the arguments of a query, as floats
QueryOfLiterals(q) ==
    [x_min |-> Call("FLit", <<q[1][1], q[1][2], q[1][3]>>),
     y_min |-> Call("FLit", <<q[2][1], q[2][2], q[2][3]>>),
     x_max |-> Call("FLit", <<q[3][1], q[3][2], q[3][3]>>),
     y_max |-> Call("FLit", <<q[4][1], q[4][2], q[4][3]>>),
     mesh_name |-> q[5]]

\* generate_jpmesh up to its first loop test: the range check, _resize_mesh
\* (bounds holds the exception when it raises), lon = bounds.x_min
Generate ==
    /\ pc = "idle"
    /\ \E q \in Queries : query' = QueryOfLiterals(q)
    /\ IF InvalidRange(query'.x_min, query'.y_min, query'.x_max, query'.y_max)
       THEN /\ exception' = ValueErrorOf("Invalid range: min values must be less than max values")
            /\ pc' = "raised"
            /\ UNCHANGED <<bounds, lon>>
       ELSE /\ bounds' = Call("_resize_mesh", <<query'.x_min, query'.y_min, query'.x_max, query'.y_max, query'.mesh_name>>)
            /\ IF bounds'.ok
               THEN lon' = bounds'.x_min /\ pc' = "while_lon" /\ exception' = None
               ELSE lon' = lon /\ pc' = "raised" /\ exception' = bounds'
    /\ UNCHANGED <<lat, mesh, mesh_bounds, decoded, mesh_code, mesh_dict>>
    /\ UNCHANGED <<call, design, designs, centre, gdf>>

\* while lon < bounds.x_max: lat = bounds.y_min; after the loop the
\* GeoDataFrame is built from mesh_dict
WhileLon ==
    /\ pc = "while_lon"
    /\ IF FLt(lon, bounds.x_max)
       THEN lat' = bounds.y_min /\ pc' = "while_lat"
       ELSE lat' = lat /\ pc' = "done"
    /\ UNCHANGED <<lon, mesh, mesh_bounds, decoded, mesh_code, query, bounds, mesh_dict>>
    /\ UNCHANGED <<call, design, designs, centre, gdf>>
    /\ UNCHANGED exception

\* while lat < bounds.y_max: the loop body; after the loop lon += step_lon
WhileLat ==
    /\ pc = "while_lat"
    /\ IF FLt(lat, bounds.y_max)
       THEN /\ mesh' = Call("MeshCodeJP", <<lon, lat>>)
            /\ IF ~mesh'.ok
               THEN /\ pc' = "raised"
                    /\ UNCHANGED <<lat, mesh_bounds, mesh_code, mesh_dict>>
               ELSE /\ mesh_code' = Call("CodeOf", <<mesh', query.mesh_name>>)
                    /\ mesh_bounds' = [NoBounds EXCEPT ![LevelOf(query.mesh_name)] =
                                           Call("BoundsOf", <<mesh', query.mesh_name>>)]
                    /\ IF ~mesh_bounds'[LevelOf(query.mesh_name)].ok
                       THEN /\ pc' = "raised"
                            /\ UNCHANGED <<lat, mesh_dict>>
                       ELSE /\ mesh_dict' =
                                  IF \E k \in 1..Len(mesh_dict) : mesh_dict[k].mesh_code = mesh_code'
                                  THEN mesh_dict
                                  ELSE Append(mesh_dict,
                                              [mesh_code |-> mesh_code',
                                               geometry |-> mesh_bounds'[LevelOf(query.mesh_name)]])
                            /\ lat' = Call("FAdd", <<lat, Call("_get_step", <<query.mesh_name>>).lat>>)
                            /\ pc' = "while_lat"
            /\ lon' = lon
       ELSE /\ lon' = Call("FAdd", <<lon, Call("_get_step", <<query.mesh_name>>).lon>>)
            /\ pc' = "while_lon"
            /\ UNCHANGED <<lat, mesh, mesh_bounds, mesh_code, mesh_dict>>
    /\ UNCHANGED <<decoded, query, bounds>>
    /\ UNCHANGED <<call, design, designs, centre, gdf>>
    /\ exception' = IF pc' # "raised" THEN None
                    ELSE IF ~mesh'.ok THEN mesh'
                    ELSE mesh_bounds'[LevelOf(query.mesh_name)]

GenerateNext == Generate \/ WhileLon \/ WhileLat \/ Discard

GenerateSpec == Init /\ [][GenerateNext]_vars

\* the geometry of the k-th returned cell
Cell(k) == mesh_dict[k].geometry

\* the point (x, y) lies within the closed bounds b
InClosed(b, x, y) ==
    /\ FLe(b.x_min, x) /\ FLe(x, b.x_max)
    /\ FLe(b.y_min, y) /\ FLe(y, b.y_max)

\* the returned codes have the length of the requested level
LevelLengths ==
    \A k \in 1..Len(mesh_dict) :
        Len(mesh_dict[k].mesh_code) = <<4, 6, 8, 9, 10>>[LevelOf(query.mesh_name)]

\* C8 (range completeness): every point of the query box lies within the
\* closed bounds of a cell generate_jpmesh returned; stated for the four
\* corners of the box, and for the results whose codes have the length of
\* the level
C8_RangeCompleteness ==
    (pc = "done" /\ LevelLengths) =>
        \A x \in {query.x_min, query.x_max}, y \in {query.y_min, query.y_max} :
            \E k \in 1..Len(mesh_dict) : InClosed(Cell(k), x, y)

\* two cells drawn on a shared grid touch: their closed bounds meet, up to
\* the 10^-9 degrees by which bounds computed from different parents differ
Touches(a, b) ==
    LET eps == Call("FLit", <<0, 1, 9>>)
    IN  /\ FLe(a.x_min, Call("FAdd", <<b.x_max, eps>>)) /\ FLe(b.x_min, Call("FAdd", <<a.x_max, eps>>))
        /\ FLe(a.y_min, Call("FAdd", <<b.y_max, eps>>)) /\ FLe(b.y_min, Call("FAdd", <<a.y_max, eps>>))

\* how many other returned cells the k-th returned cell touches
Neighbours(k) ==
    Cardinality({j \in 1..Len(mesh_dict) : j # k /\ Touches(Cell(k), Cell(j))})

\* C9 (neighbour count): every returned cell touches exactly 3, 5 or 8 other
\* returned cells; stated for the results with at least two rows and two
\* columns of cells, where a corner, edge or interior cell has such a count
C9_NeighbourCount ==
    (/\ pc = "done"
     /\ Cardinality({Cell(k).x_min : k \in 1..Len(mesh_dict)}) >= 2
     /\ Cardinality({Cell(k).y_min : k \in 1..Len(mesh_dict)}) >= 2) =>
        \A k \in 1..Len(mesh_dict) : Neighbours(k) \in {3, 5, 8}

\* C10 (no duplicates): no two returned rows carry the same mesh_code, and
\* every returned code has the length of the requested level
C10_NoDuplicates ==
    pc = "done" =>
        /\ \A j, k \in 1..Len(mesh_dict) :
               mesh_dict[j].mesh_code = mesh_dict[k].mesh_code => j = k
        /\ LevelLengths

\* nothing of the loops has happened: no point encoded, no cell collected
NothingEncoded == mesh = None /\ mesh_bounds = NoBounds /\ mesh_dict = <<>>

\* C17 (degenerate range rejected): whenever x_min >= x_max or y_min >= y_max,
\* for any mesh name, generate_jpmesh raises the ValueError of its range check
\* and nothing has been resized, encoded or collected
C17_DegenerateRejected ==
    (pc # "idle" /\ (~FLt(query.x_min, query.x_max) \/ ~FLt(query.y_min, query.y_max))) =>
        /\ pc = "raised"
        /\ exception = ValueErrorOf("Invalid range: min values must be less than max values")
        /\ bounds = None
        /\ NothingEncoded

\* a box without width but with height has been rejected
C17_Witness ==
    /\ pc = "raised" /\ exception.error = "ValueError"
    /\ query.x_min = query.x_max /\ FLt(query.y_min, query.y_max)

\* C18 (unknown level rejected): for a box with x_min < x_max and y_min <
\* y_max and a mesh name that is none of the five, generate_jpmesh raises the
\* ValueError of _resize_mesh's valid_names check, nothing has been encoded or
\* collected, and no result is returned
C18_UnknownLevelRejected ==
    (/\ pc # "idle"
     /\ FLt(query.x_min, query.x_max) /\ FLt(query.y_min, query.y_max)
     /\ query.mesh_name \notin {"1st", "2nd", "standard", "half", "quarter"}) =>
        /\ pc = "raised"
        /\ exception = ValueErrorOf("Argument 'mesh_name' must be one of")
        /\ NothingEncoded

\* the mesh name "invalid" has been rejected for a box that is in order
C18_Witness ==
    /\ pc = "raised" /\ exception.error = "ValueError"
    /\ query.mesh_name = "invalid"
    /\ FLt(query.x_min, query.x_max) /\ FLt(query.y_min, query.y_max)

(***************************************************************************)
(* DecodeSpec: a caller hands mesh_code_to_bounds a string                 *)
(***************************************************************************)
\* the longest string the caller tries
MaxLength == 12

\* the strings of every length up to MaxLength that the quarter code
\* 5339358911, repeated, starts with; a string that is not digits; the
\* standard code 53393589 followed by every digit, and by every two digits
Strings ==
    { [k \in 1..n |-> <<"5", "3", "3", "9", "3", "5", "8", "9", "1", "1">>[((k - 1) % 10) + 1]] :
        n \in 0..MaxLength }
    \cup { <<"5", "3", "x", "9">> }
    \cup { <<"5", "3", "3", "9", "3", "5", "8", "9", DigitChars[i]>> : i \in 1..10 }
    \cup { <<"5", "3", "3", "9", "3", "5", "8", "9", DigitChars[i], DigitChars[j]>> :
             i \in 1..10, j \in 1..10 }

\* mesh_code_to_bounds(mesh_code): decoded holds what it returned or raised at
\* the mesh type of the string, when it has one
DecodeString ==
    /\ pc = "idle"
    /\ \E c \in Strings :
         /\ mesh_code' = c
         /\ decoded' = IF mesh_type(c) = "" THEN decoded
                       ELSE [decoded EXCEPT ![LevelOf(mesh_type(c))] = Call("to_bounds", <<c>>)]
         /\ exception' = IF mesh_type(c) = "" THEN Call("to_bounds", <<c>>)
                         ELSE IF decoded'[LevelOf(mesh_type(c))].ok THEN None
                         ELSE decoded'[LevelOf(mesh_type(c))]
    /\ pc' = IF exception' = None THEN "done" ELSE "raised"
    /\ UNCHANGED <<lon, lat, mesh, mesh_bounds, query, bounds, mesh_dict>>
    /\ UNCHANGED <<call, design, designs, centre, gdf>>

DecodeNext == DecodeString \/ Discard

DecodeSpec == Init /\ [][DecodeNext]_vars

(***************************************************************************)
(* Properties of DecodeSpec                                                *)
(***************************************************************************)
\* the bounds b are 1 / n degrees wide and 2 / (3 * n) degrees high, to 10^-9
SizeIs(b, n) ==
    LET eps == Call("FLit", <<0, 1, 9>>)
        w == FSub(b.x_max, b.x_min)
        h == FSub(b.y_max, b.y_min)
    IN  /\ FLt(FSub(w, eps), FDiv(FOne, F(n))) /\ FLt(FDiv(FOne, F(n)), Call("FAdd", <<w, eps>>))
        /\ FLt(FSub(h, eps), FDiv(F(2), F(3 * n))) /\ FLt(FDiv(F(2), F(3 * n)), Call("FAdd", <<h, eps>>))

\* C19 (decode dispatches on length only): a string of length 4, 6, 8, 9 or
\* 10 is decoded at the first, second, standard, half or quarter level (the
\* bounds returned have that level's size, and an error is not that of the
\* length); a string of any other length raises ValueError("Invalid mesh code
\* length") and no bounds are returned
C19_LengthDispatch ==
    pc # "idle" =>
        IF Len(mesh_code) \in {4, 6, 8, 9, 10}
        THEN /\ exception # ValueErrorOf("Invalid mesh code length")
             /\ \A n \in 1..5 :
                    decoded[n].ok =>
                        /\ Len(mesh_code) = <<4, 6, 8, 9, 10>>[n]
                        /\ SizeIs(decoded[n], <<1, 8, 80, 160, 320>>[n])
                        /\ pc = "done"
        ELSE /\ pc = "raised"
             /\ exception = ValueErrorOf("Invalid mesh code length")
             /\ \A n \in 1..5 : ~decoded[n].ok

\* a string of 11 digits has been rejected for its length
C19_Witness ==
    /\ pc = "raised" /\ Len(mesh_code) = 11 /\ IsDigits(mesh_code)
    /\ exception.error = "ValueError"

\* C20 (invalid quadrant digit rejected): a code of 9 digits whose 9th digit
\* is outside 1..4, and a code of 10 digits whose 9th or 10th digit is
\* outside 1..4, raises an error and no bounds are returned
C20_QuadrantRejected ==
    (/\ pc # "idle" /\ IsDigits(mesh_code) /\ Len(mesh_code) \in {9, 10}
     /\ \E k \in 9..Len(mesh_code) : CharVal(mesh_code[k]) \notin 1..4) =>
        /\ pc = "raised"
        /\ exception.error = "ValueError"
        /\ \A n \in 1..5 : ~decoded[n].ok

\* a code of 10 digits with the 9th digit 5 and the 10th digit 1 has been
\* rejected
C20_Witness ==
    /\ pc = "raised" /\ Len(mesh_code) = 10 /\ IsDigits(mesh_code)
    /\ mesh_code[9] = "5" /\ mesh_code[10] = "1"
    /\ exception.error = "ValueError"

(***************************************************************************)
(* TileSpec: a caller asks a TileDesigner for the tile of an index, the    *)
(* tile of a point, or the tiles of a box, and sends the centre of a       *)
(* tile's bounds back through lonlat_to_tile_idx                            *)
(***************************************************************************)
\* the zoom levels the caller tries: both ends of 0..24, levels between, and
\* the levels next to the ends
ZoomLevels == {-1, 0, 1, 10, 24, 25}

\* a signed decimal literal <<sign, integer part, fraction digits, number of
\* fraction digits>> as a float
Signed(l) == IF l[1] < 0 THEN FNeg(Call("FLit", <<l[2], l[3], l[4]>>)) ELSE Call("FLit", <<l[2], l[3], l[4]>>)

\* tile indices at a zoom level: the corners, the middle, and Tokyo's tile at
\* zoom level 10
TileIndices(zoom_level) ==
    IF zoom_level \notin 0..24 THEN {[x |-> 0, y |-> 0]}
    ELSE LET n == 2^zoom_level
             edge == {0, n \div 2, n - 1} \cap 0..(n - 1)
         IN  {[x |-> x, y |-> y] : x \in edge, y \in edge}
             \cup (IF zoom_level = 10 THEN {[x |-> 909, y |-> 403]} ELSE {})

\* longitudes in degrees, both ends of [-180, 180] among them, and latitudes
\* as Mercator fractions (0.212634 is 35.7 degrees north, 0.464984 is 64.6)
TileLons == {<<-1, 180, 0, 1>>, <<-1, 179, 9, 1>>, <<1, 0, 0, 1>>, <<1, 139, 7, 1>>,
             <<1, 179, 999, 3>>, <<1, 180, 0, 1>>}
TileLats == {<<1, 0, 0, 1>>, <<1, 0, 212634, 6>>, <<-1, 0, 212634, 6>>, <<1, 0, 464984, 6>>}

\* boxes <<x_min, y_min, x_max, y_max, zoom_level, in_crs>> for tiles: within
\* one tile, over a few tiles, with the corners exchanged, and without in_crs
TileBoxes ==
    { <<<<1, 139, 0, 1>>, <<1, 0, 207804, 6>>, <<1, 140, 0, 1>>, <<1, 0, 214629, 6>>, z, crs>> :
        z \in {0, 8, 10, 25}, crs \in {"EPSG:4326", "omitted"} }
    \cup { <<<<1, 139, 0, 1>>, <<-1, 0, 212634, 6>>, <<1, 141, 0, 1>>, <<1, 0, 212634, 6>>, 3, "EPSG:4326">>,
           <<<<1, 140, 0, 1>>, <<1, 0, 214629, 6>>, <<1, 139, 0, 1>>, <<1, 0, 207804, 6>>, 8, "EPSG:4326">>,
           <<<<-1, 180, 0, 1>>, <<-1, 0, 5, 1>>, <<1, 179, 0, 1>>, <<1, 0, 5, 1>>, 1, "EPSG:4326">> }

\* the widths and heights a caller constructs a TileDesigner with: the
\* default at every zoom level and, at zoom level 10, a zero width, a zero
\* height and a negative width as well
TileSizes(zoom_level) ==
    {<<256, 256>>} \cup (IF zoom_level = 10 THEN {<<0, 256>>, <<256, 0>>, <<-1, 256>>} ELSE {})

\* design = TileDesigner(width, height).from_tile_idx(x, y, zoom_level)
FromTileIdx ==
    /\ pc = "idle"
    /\ \E zoom_level \in ZoomLevels : \E idx \in TileIndices(zoom_level), size \in TileSizes(zoom_level) :
         /\ call' = [self |-> TileDesigner(size[1], size[2]),
                     x |-> idx.x, y |-> idx.y, zoom_level |-> zoom_level]
         /\ design' = Call("from_tile_idx", <<call'.self, idx.x, idx.y, zoom_level>>)
    /\ pc' = IF design'.ok THEN "tile" ELSE "raised"
    /\ UNCHANGED <<lon, lat, mesh, mesh_bounds, decoded, mesh_code, query, bounds, mesh_dict>>
    /\ UNCHANGED <<designs, centre, gdf>>
    /\ exception' = IF design'.ok THEN None ELSE design'

\* design = TileDesigner().from_lonlat(lon, lat, zoom_level)
FromLonLat ==
    /\ pc = "idle"
    /\ \E zoom_level \in ZoomLevels, x \in TileLons, y \in TileLats :
         /\ call' = [self |-> TileDesigner(256, 256),
                     lon |-> Signed(x), lat |-> Signed(y), zoom_level |-> zoom_level,
                     in_crs |-> "EPSG:4326"]
         /\ design' = Call("from_lonlat", <<call'.self, call'.lon, call'.lat, zoom_level, "EPSG:4326">>)
    /\ pc' = IF design'.ok THEN "tile" ELSE "raised"
    /\ UNCHANGED <<lon, lat, mesh, mesh_bounds, decoded, mesh_code, query, bounds, mesh_dict>>
    /\ UNCHANGED <<designs, centre, gdf>>
    /\ exception' = IF design'.ok THEN None ELSE design'

\* centre = lonlat_to_tile_idx(the centre of design.bounds, in_crs = EPSG:3857)
FromCentre ==
    /\ pc = "tile"
    /\ LET b == design.bounds
       IN  centre' = Call("lonlat_to_tile_idx", <<FDiv(Call("FAdd", <<b.x_min, b.x_max>>), F(2)), FDiv(Call("FAdd", <<b.y_min, b.y_max>>), F(2)), design.zoom_level, "EPSG:3857">>)
    /\ pc' = "done"
    /\ UNCHANGED <<lon, lat, mesh, mesh_bounds, decoded, mesh_code, query, bounds, mesh_dict>>
    /\ UNCHANGED <<call, design, designs, gdf, exception>>

\* designs = TileDesigner().tiles(x_min, y_min, x_max, y_max, zoom_level, in_crs)
Tiles ==
    /\ pc = "idle"
    /\ \E q \in TileBoxes :
         /\ call' = [self |-> TileDesigner(256, 256),
                     x_min |-> Signed(q[1]), y_min |-> Signed(q[2]), x_max |-> Signed(q[3]),
                     y_max |-> Signed(q[4]), zoom_level |-> q[5], in_crs |-> q[6]]
         /\ designs' = Call("tiles", <<call'.self, call'.x_min, call'.y_min, call'.x_max, call'.y_max, q[5], q[6]>>)
    /\ pc' = IF designs'.ok THEN "done" ELSE "raised"
    /\ UNCHANGED <<lon, lat, mesh, mesh_bounds, decoded, mesh_code, query, bounds, mesh_dict>>
    /\ UNCHANGED <<design, centre, gdf>>
    /\ exception' = IF designs'.ok THEN None ELSE designs'

TileNext == FromTileIdx \/ FromLonLat \/ FromCentre \/ Tiles \/ Discard

TileSpec == Init /\ [][TileNext]_vars

(***************************************************************************)
(* Properties of TileSpec                                                  *)
(***************************************************************************)
\* the designs the caller holds: the one of from_lonlat or from_tile_idx, or
\* those of tiles
Held ==
    (IF design.ok THEN {design} ELSE {})
    \cup (IF designs.ok THEN {designs.designs[k] : k \in 1..Len(designs.designs)} ELSE {})

\* C12 (bounds validity): the bounds of every TileDesign that from_tile_idx,
\* from_lonlat or tiles returns have x_min < x_max and y_min < y_max
C12_BoundsValid ==
    \A d \in Held : FLt(d.bounds.x_min, d.bounds.x_max) /\ FLt(d.bounds.y_min, d.bounds.y_max)

\* C13 (tile index range): every TileDesign that from_lonlat (lon in
\* [-180, 180]), from_tile_idx or tiles returns has 0 <= x_idx < 2^zoom_level
\* and 0 <= y_idx < 2^zoom_level
C13_IndexInRange ==
    \A d \in Held : /\ d.x_idx \in 0..(2^d.zoom_level - 1)
                    /\ d.y_idx \in 0..(2^d.zoom_level - 1)

\* the values a design's bounds and resolutions hand to floor: the four
\* coordinates of its corners and the two quotients
Floored(d) ==
    LET c == Call("TileCorners", <<call.self, d.x_idx, d.y_idx, d.zoom_level>>)
    IN  {c.sw.x, c.sw.y, c.ne.x, c.ne.y}
        \cup (IF d.width = 0 THEN {}
              ELSE {FDiv(FSub(d.bounds.x_max, d.bounds.x_min), FInt(d.width))})
        \cup (IF d.height = 0 THEN {}
              ELSE {FDiv(FSub(d.bounds.y_max, d.bounds.y_min), FInt(d.height))})

\* C14 (four-decimal flooring): for every value v that a design's bounds and
\* resolutions hand to floor, v - 0.0001 < floor(v) <= v, and the bounds and
\* resolutions are those values of floor
C14_FloorFourDecimals ==
    design.ok =>
        /\ \A v \in Floored(design) : FLt(FSub(v, Call("FLit", <<0, 1, 4>>)), Call("floor", <<v>>)) /\ FLe(Call("floor", <<v>>), v)
        /\ design.width # 0 => Call("x_resolution", <<design>>) \in {Call("floor", <<v>>) : v \in Floored(design)}
        /\ design.height # 0 => Call("y_resolution", <<design>>) \in {Call("floor", <<v>>) : v \in Floored(design)}

\* the index pairs of the designs tiles returned, in the order of the list
IndexPairs == [k \in 1..Len(designs.designs) |->
                 <<designs.designs[k].x_idx, designs.designs[k].y_idx>>]

\* C15 (tile range enumeration): with sw and ne the tile indices of the
\* corners (x_min, y_min) and (x_max, y_max), tiles returns one TileDesign for
\* every index pair of [sw.x, ne.x] x [ne.y, sw.y] and no other, each pair
\* once, (ne.x - sw.x + 1) * (sw.y - ne.y + 1) designs in all, every one at
\* the zoom level asked for
C15_TileRange ==
    (pc = "done" /\ designs.ok) =>
        LET sw == Call("lonlat_to_tile_idx", <<call.x_min, call.y_min, call.zoom_level, call.in_crs>>)
            ne == Call("lonlat_to_tile_idx", <<call.x_max, call.y_max, call.zoom_level, call.in_crs>>)
            rectangle == (sw.x..ne.x) \X (ne.y..sw.y)
        IN  /\ {IndexPairs[k] : k \in 1..Len(IndexPairs)} = rectangle
            /\ \A j, k \in 1..Len(IndexPairs) : IndexPairs[j] = IndexPairs[k] => j = k
            /\ (sw.x <= ne.x /\ ne.y <= sw.y) =>
                   Len(IndexPairs) = (ne.x - sw.x + 1) * (sw.y - ne.y + 1)
            /\ \A k \in 1..Len(IndexPairs) : designs.designs[k].zoom_level = call.zoom_level

\* tiles has returned a box of several columns and several rows
C15_Witness ==
    /\ pc = "done" /\ designs.ok
    /\ \E j, k \in 1..Len(IndexPairs) :
          IndexPairs[j][1] # IndexPairs[k][1] /\ IndexPairs[j][2] # IndexPairs[k][2]

C22_ZoomRange ==
    (pc # "idle" /\ call # None) =>
        IF call.zoom_level \in 0..24
        THEN exception.error \notin {"ValueError", "TypeError"}
        ELSE /\ pc = "raised"
             /\ ~design.ok /\ ~designs.ok /\ centre = None
             /\ exception.error = "ValueError"

\* C23 (tile dimensions validated): a TileDesigner constructed with
\* width <= 0 or height <= 0 fails with a ValueError, so every TileDesign the
\* caller holds has a positive width and height, and its x_resolution and
\* y_resolution do not divide by zero
C23_DimensionsValidated ==
    /\ (pc # "idle" /\ call # None /\ (call.self.width <= 0 \/ call.self.height <= 0)) =>
           /\ pc = "raised"
           /\ exception.error = "ValueError"
    /\ \A d \in Held : /\ d.width > 0 /\ d.height > 0
                       /\ Call("x_resolution", <<d>>) # ZeroDivisionError
                       /\ Call("y_resolution", <<d>>) # ZeroDivisionError


\* the result of the call of tiles the caller made, had in_crs = EPSG:4326
\* been passed
WithExplicitCrs ==
    Call("tiles", <<call.self, call.x_min, call.y_min, call.x_max, call.y_max, call.zoom_level, "EPSG:4326">>)

\* C24 (default input CRS of tiles): tiles called by keyword with a valid box
\* and zoom level and without in_crs does not fail, returns at least one
\* TileDesign, and returns the tiles of the same call with in_crs = EPSG:4326
C24_DefaultCrs ==
    (pc # "idle" /\ call # None /\ "in_crs" \in DOMAIN call /\ call.in_crs = "omitted"
       /\ call.zoom_level \in 0..24 /\ FLt(call.x_min, call.x_max) /\ FLt(call.y_min, call.y_max)) =>
        /\ pc = "done"
        /\ designs.ok
        /\ Len(designs.designs) > 0
        /\ designs = WithExplicitCrs

\* the number of cells of a level along one degree of longitude
CellsPerDegree(mesh_name) == <<1, 8, 80, 160, 320>>[LevelOf(mesh_name)]

\* C25 (walk by the level's own step): the increments generate_jpmesh snaps
\* and walks the query box with are the cell size of the level: 1/n degree
\* of longitude and 2/(3n) degree of latitude with n = 1, 8, 80, 160, 320
C25_StepIsCellSize ==
    pc \in {"while_lon", "while_lat", "done"} =>
        LET steps == Call("_get_step", <<query.mesh_name>>)
            n == CellsPerDegree(query.mesh_name)
        IN  /\ steps.lon = PyTrueDiv(<<1>>, BFromNat(n))
            /\ steps.lat = PyTrueDiv(<<2>>, BFromNat(3 * n))

(***************************************************************************)
(* ResizeSpec: a caller hands _resize_mesh a box and a level               *)
(***************************************************************************)
\* the pairs <<x_min, x_max>> and <<y_min, y_max>> of the boxes, as signed
\* literals: east and west of Greenwich, north and south of the equator,
\* across zero, and on whole degrees
ResizeLons == { <<<<1, 139, 1, 1>>, <<1, 139, 2, 1>>>>, <<<<-1, 139, 1, 1>>, <<-1, 139, 0, 1>>>>,
                <<<<-1, 0, 5, 2>>, <<1, 0, 5, 2>>>>, <<<<1, 0, 0, 1>>, <<1, 1, 0, 1>>>>,
                <<<<1, 76, 9, 1>>, <<1, 77, 65, 2>>>> }
ResizeLats == { <<<<1, 35, 1, 1>>, <<1, 36, 0, 1>>>>, <<<<-1, 35, 1, 1>>, <<-1, 35, 0, 1>>>>,
                <<<<-1, 0, 5, 2>>, <<1, 0, 5, 2>>>>, <<<<1, 0, 0, 1>>, <<1, 0, 5, 1>>>>,
                <<<<-1, 17, 0, 1>>, <<-1, 16, 91, 2>>>> }

\* the levels, and a name that is none
ResizeNames == {MeshNames[n] : n \in 1..Len(MeshNames)} \cup {"invalid"}

\* bounds = _resize_mesh(x_min, y_min, x_max, y_max, mesh_name)
Resize ==
    /\ pc = "idle"
    /\ \E x \in ResizeLons, y \in ResizeLats, mesh_name \in ResizeNames :
         query' = [x_min |-> Signed(x[1]), y_min |-> Signed(y[1]),
                   x_max |-> Signed(x[2]), y_max |-> Signed(y[2]), mesh_name |-> mesh_name]
    /\ bounds' = Call("_resize_mesh", <<query'.x_min, query'.y_min, query'.x_max, query'.y_max, query'.mesh_name>>)
    /\ pc' = IF bounds'.ok THEN "done" ELSE "raised"
    /\ exception' = IF bounds'.ok THEN None ELSE bounds'
    /\ UNCHANGED <<lon, lat, mesh, mesh_bounds, decoded, mesh_code, mesh_dict>>
    /\ UNCHANGED <<call, design, designs, centre, gdf>>

ResizeNext == Resize \/ Discard

ResizeSpec == Init /\ [][ResizeNext]_vars

(***************************************************************************)
(* Properties of ResizeSpec                                                *)
(***************************************************************************)
\* v is an integer multiple of step: v % step == 0
OnStep(v, step) == FIsZero(Call("PyMod", <<v, step>>))

\* C26 (outward snap): the four edges of the box _resize_mesh returns are
\* integer multiples of the step, the box contains the input box, every edge
\* moved by less than one step, and an edge that was on a step multiple did
\* not move
C26_OutwardSnap ==
    (pc = "done" /\ bounds.ok) =>
        LET steps == Call("_get_step", <<query.mesh_name>>)
        IN  /\ OnStep(bounds.x_min, steps.lon) /\ OnStep(bounds.x_max, steps.lon)
            /\ OnStep(bounds.y_min, steps.lat) /\ OnStep(bounds.y_max, steps.lat)
            /\ FLe(bounds.x_min, query.x_min) /\ FLe(bounds.y_min, query.y_min)
            /\ FLe(query.x_max, bounds.x_max) /\ FLe(query.y_max, bounds.y_max)
            /\ FLt(FSub(query.x_min, bounds.x_min), steps.lon)
            /\ FLt(FSub(query.y_min, bounds.y_min), steps.lat)
            /\ FLt(FSub(bounds.x_max, query.x_max), steps.lon)
            /\ FLt(FSub(bounds.y_max, query.y_max), steps.lat)
            /\ OnStep(query.x_min, steps.lon) => bounds.x_min = query.x_min
            /\ OnStep(query.y_min, steps.lat) => bounds.y_min = query.y_min
            /\ OnStep(query.x_max, steps.lon) => bounds.x_max = query.x_max
            /\ OnStep(query.y_max, steps.lat) => bounds.y_max = query.y_max

\* a and b lie within 10^-9 degrees of each other
Near(a, b) == FLt(FSub(a, b), Call("FLit", <<0, 1, 9>>)) /\ FLt(FSub(b, a), Call("FLit", <<0, 1, 9>>))

\* cell w is the western neighbour of cell e, cell s the southern neighbour
\* of cell n: same row or column of the grid, and the facing edges meet to
\* within 10^-9 degrees
WestOf(w, e) == Near(w.y_min, e.y_min) /\ Near(w.y_max, e.y_max) /\ Near(w.x_max, e.x_min)
SouthOf(s, n) == Near(s.x_min, n.x_min) /\ Near(s.x_max, n.x_max) /\ Near(s.y_max, n.y_min)

\* C27 (shared edges): of two neighbouring cells that generate_jpmesh
\* returned, the x_max of the western one is the x_min of the eastern one
\* and the y_max of the southern one is the y_min of the northern one,
\* exactly, and cells of one row or column have the same y or x edges
C27_SharedEdges ==
    pc = "done" =>
        \A j, k \in 1..Len(mesh_dict) :
            /\ WestOf(Cell(j), Cell(k)) => /\ Cell(j).x_max = Cell(k).x_min
                                           /\ Cell(j).y_min = Cell(k).y_min
                                           /\ Cell(j).y_max = Cell(k).y_max
            /\ SouthOf(Cell(j), Cell(k)) => /\ Cell(j).y_max = Cell(k).y_min
                                            /\ Cell(j).x_min = Cell(k).x_min
                                            /\ Cell(j).x_max = Cell(k).x_max

\* a float of degrees in units of 1 / SCALE, rounded to the nearest unit
UnitsOf(v) == Call("FToBig", <<Call("FAdd", <<Call("FMul", <<v, FFromBig(SCALE)>>), Call("FLit", <<0, 5, 1>>)>>)>>)

\* a and b differ by at most 1 / SCALE
WithinUnit(a, b) == FLe(FSub(a, b), Call("FLit", <<0, 1, 10>>)) /\ FLe(FSub(b, a), Call("FLit", <<0, 1, 10>>))

IsQuadrant(parent, cell, d, nx, ny) ==
    /\ Near(cell.x_min, Call("FAdd", <<parent.x_min, FDiv(F((d - 1) % 2), F(nx))>>))
    /\ Near(cell.y_min, Call("FAdd", <<parent.y_min, FDiv(F((d - 1) \div 2), F(ny))>>))

\* the point of the object lies in the bounds b, to within 10^-9 degrees
HoldsPoint(b) ==
    LET eps == Call("FLit", <<0, 1, 9>>)
    IN  /\ FLe(FSub(b.x_min, eps), lon) /\ FLe(lon, Call("FAdd", <<b.x_max, eps>>))
        /\ FLe(FSub(b.y_min, eps), lat) /\ FLe(lat, Call("FAdd", <<b.y_max, eps>>))

\* the digits of the four quadrants
QuadrantChars == {"1", "2", "3", "4"}

\* C29 (quadrant digit mapping): for a point of the domain the 9th digit of
\* the half code and the 10th digit of the quarter code are 1..4; decoding
\* the codes does not fail, and the digit d names the quadrant
\* ((d - 1) mod 2, (d - 1) div 2) of the parent cell, west to east and south
\* to north, which is the quadrant the point lies in
C29_QuadrantDigits ==
    (InDomain /\ pc # "idle") =>
        /\ mesh.ok
        /\ Len(mesh.half_mesh_code) >= 9 /\ Len(mesh.quarter_mesh_code) >= 10
        /\ mesh.half_mesh_code[9] \in QuadrantChars
        /\ mesh.quarter_mesh_code[10] \in QuadrantChars
        /\ pc = "done" =>
             /\ decoded[3].ok /\ decoded[4].ok /\ decoded[5].ok
             /\ IsQuadrant(decoded[3], decoded[4], IntOf(<<mesh.half_mesh_code[9]>>), 160, 240)
             /\ IsQuadrant(decoded[4], decoded[5], IntOf(<<mesh.quarter_mesh_code[10]>>), 320, 480)
             /\ HoldsPoint(decoded[4]) /\ HoldsPoint(decoded[5])

(***************************************************************************)
(* SquareSpec: a caller constructs a SquareMesh over bounds and asks it    *)
(* for the squares of a side length                                        *)
(***************************************************************************)
\* bounds <<x_min, y_min, x_max, y_max>> as decimal literals, the one of the
\* tests first; y_min is at least 1, the largest side length
SquareBounds ==
    { <<<<139, 0, 1>>, <<35, 0, 1>>, <<140, 0, 1>>, <<36, 0, 1>>>>,
      <<<<0, 0, 1>>, <<1, 0, 1>>, <<0, 82, 2>>, <<1, 82, 2>>>>,
      <<<<0, 0, 1>>, <<1, 0, 1>>, <<3, 0, 1>>, <<3, 0, 1>>>>,
      <<<<0, 5, 1>>, <<1, 5, 1>>, <<2, 75, 2>>, <<2, 5, 1>>>>,
      <<<<1, 0, 1>>, <<2, 0, 1>>, <<2, 14, 2>>, <<3, 71, 2>>>> }

\* side lengths as decimal literals
SideLengths == { <<1, 0, 1>>, <<0, 5, 1>>, <<0, 41, 2>>, <<0, 3, 1>>, <<0, 57, 2>>,
                 <<0, 25, 2>> }

\* the float of a decimal literal
SideOf(l) == Call("FLit", <<l[1], l[2], l[3]>>)

\* gdf = SquareMesh(x_min, y_min, x_max, y_max)
\*           .generate_squares_from_length(horizontal, vertical)
GenerateSquares ==
    /\ pc = "idle"
    /\ \E b \in SquareBounds, h \in SideLengths, v \in {<<>>, <<1, 0, 1>>, <<0, 5, 1>>, <<0, 41, 2>>} :
         call' = [self |-> SquareMesh(SideOf(b[1]), SideOf(b[2]), SideOf(b[3]), SideOf(b[4])),
                  horizontal |-> SideOf(h),
                  vertical |-> IF v = <<>> THEN None ELSE SideOf(v)]
    /\ gdf' = Call("generate_squares_from_length", <<call'.self, call'.horizontal, call'.vertical>>)
    /\ pc' = IF gdf'.ok THEN "done" ELSE "raised"
    /\ exception' = IF gdf'.ok THEN None ELSE gdf'
    /\ UNCHANGED <<lon, lat, mesh, mesh_bounds, decoded, mesh_code, query, bounds, mesh_dict>>
    /\ UNCHANGED <<design, designs, centre>>

SquareNext == GenerateSquares \/ Discard

SquareSpec == Init /\ [][SquareNext]_vars

(***************************************************************************)
(* Properties of SquareSpec                                                *)
(***************************************************************************)
\* math.ceil(q) of a float q that is not negative
CeilOf(q) == FToInt(Call("FTrunc", <<q>>)) + (IF Call("FTrunc", <<q>>) = q THEN 0 ELSE 1)

\* ceil((x_max - x_min) / h) and ceil((y_max - y_min) / v) of the call
Columns == CeilOf(FDiv(FSub(call.self.bounds.x_max, call.self.bounds.x_min), call.horizontal))
Rows ==
    CeilOf(FDiv(FSub(call.self.bounds.y_max, call.self.bounds.y_min),
                IF call.vertical = None THEN call.horizontal ELSE call.vertical))

\* a and b lie within 10^-12 of each other
Same(a, b) == FLt(FSub(a, b), Call("FLit", <<0, 1, 12>>)) /\ FLt(FSub(b, a), Call("FLit", <<0, 1, 12>>))

\* how many squares the call would have returned for the side length h
CountFor(h) ==
    LET other == Call("generate_squares_from_length", <<call.self, SideOf(h), call.vertical>>)
    IN  IF other.ok THEN Len(other.geometry) ELSE 0

\* C30 (square grid tiling): generate_squares_from_length(h, v) on bounds
\* with x_min < x_max and y_min < y_max and h, v > 0 returns
\* ceil((x_max - x_min) / h) * ceil((y_max - y_min) / v) squares, each h wide
\* and v high, row by row from the top-left corner, neighbours sharing their
\* edge, the union covering the bounds; the labels xy are 'column/row' and
\* pairwise distinct, id runs 0..n-1; and a smaller h does not give fewer
\* squares
C30_SquareTiling ==
    (pc # "idle" /\ call # None /\ "horizontal" \in DOMAIN call) =>
        /\ gdf.ok
        /\ LET n == Len(gdf.geometry)
               sq(k) == gdf.geometry[k]
               b == call.self.bounds
               h == call.horizontal
               v == IF call.vertical = None THEN call.horizontal ELSE call.vertical
           IN  /\ n = Columns * Rows
               /\ \A k \in 1..n :
                    /\ Same(FSub(sq(k).x_max, sq(k).x_min), h)
                    /\ Same(FSub(sq(k).y_max, sq(k).y_min), v)
                    /\ gdf.id[k] = k - 1
                    /\ gdf.xy[k] = Str((k - 1) % Columns) \o <<"/">> \o Str((k - 1) \div Columns)
                    /\ (k - 1) % Columns = 0 => FLe(sq(k).x_min, b.x_min)
                    /\ (k - 1) % Columns # 0 => sq(k).x_min = sq(k - 1).x_max
                    /\ k % Columns = 0 => FLe(b.x_max, sq(k).x_max)
                    /\ k <= Columns => FLe(b.y_max, sq(k).y_max)
                    /\ k > Columns => sq(k).y_max = sq(k - Columns).y_min
                    /\ k > n - Columns => FLe(sq(k).y_min, b.y_min)
               /\ \A j, k \in 1..n : gdf.xy[j] = gdf.xy[k] => j = k
               /\ \A s \in SideLengths : FLt(SideOf(s), h) => CountFor(s) >= n

====
